---- MODULE Spec2Model ----
(***************************************************************************)
(* The analysis session of the Reddit sentiment analyzer front end: the    *)
(* useAnalysis hook (its two-phase variant, which fetches from Reddit in   *)
(* the browser and then streams the server's processing, and its variant   *)
(* with snapshot loading and reset), the Reddit client it drives and the   *)
(* push-stream consumer.                                                   *)
(*                                                                         *)
(* JavaScript runs one task at a time.  A step of the model is one task:   *)
(* a call of a hook operation, or the resumption of one run at the await   *)
(* it is suspended in, run up to its next await.  An abort() makes the     *)
(* aborted run's pending fetch or sleep reject in a microtask, that is,    *)
(* before any other task: pendingAbort holds that run until it has run.    *)
(***************************************************************************)
EXTENDS Integers, Sequences, FiniteSets, TLC

VARIABLES
    hook,          \* which useAnalysis this is: "twoPhase" or "snapshot"
    status, progress, stage, message, result, error,   \* the hook's state
    abortRef,      \* abortRef.current: the run whose controller it holds, 0 for null
    aborted,       \* aborted[r]: controller.signal.aborted of run r
    runs,          \* runs[r]: the r-th async call (startAnalysis, loadSnapshot)
    pendingAbort,  \* the run whose abort rejection is queued as a microtask, or 0
    calls,         \* history: the number of hook operations called
    lastOp,        \* history: the last hook operation called
    fetcher,       \* one call of fetchJson, taken alone
    collector,     \* one call of fetchSubredditPosts against a listing
    extractor,     \* one call of extractComments on a reply tree
    consumer,      \* the read loop of streamAnalysis on a byte stream
    composer,      \* the progress arithmetic of startAnalysis in doubles
    acquirer,      \* one run of startAnalysis, its requests and delays recorded
    sleeper        \* one call of sleep, taken alone

\* the session and its runs
hookVars == <<hook, status, progress, stage, message, result, error,
              abortRef, aborted, runs, pendingAbort, calls, lastOp>>

\* the parts of the client, each exercised alone by a specification of its own
partVars == <<fetcher, collector, extractor, consumer, composer, acquirer, sleeper>>

vars == <<hookVars, partVars>>

session == <<status, progress, stage, message, result, error>>

----------------------------------------------------------------------------
(* Bounds of the model *)
MaxRuns == 2          \* calls of startAnalysis / loadSnapshot in one behaviour
MaxCalls == 3         \* calls of hook operations in one behaviour
MaxFrames == 2        \* frames one response stream delivers
MaxPostLimit == 2     \* the largest post_limit requested

(* Program constants *)
PAGE_SIZE == 100
MAX_RETRIES == 3
COMMENT_FETCH_CAP == 50

----------------------------------------------------------------------------
(* Values.  null is the empty tuple; messages, errors and results are     *)
(* tuples <<tag, numbers...>>; a number is a fraction <<n, d>> in lowest   *)
(* terms and NaN is <<0, 0>>.                                              *)
Null == <<>>
NaN == <<0, 0>>
Zero == <<0, 1>>
One == <<1, 1>>

Min(a, b) == IF a <= b THEN a ELSE b

Ceil(a, b) == (a + b - 1) \div b

RECURSIVE GCD(_, _)
GCD(a, b) == IF b = 0 THEN a ELSE GCD(b, a % b)

Frac(n, d) == IF d = 0 THEN NaN ELSE LET g == GCD(n, d) IN <<n \div g, d \div g>>

\* a * b on fractions (NaN is absorbing)
Times(a, b) == IF a = NaN \/ b = NaN THEN NaN ELSE Frac(a[1] * b[1], a[2] * b[2])

\* a + b on fractions
Plus(a, b) == IF a = NaN \/ b = NaN THEN NaN ELSE Frac(a[1] * b[2] + b[1] * a[2], a[2] * b[2])

\* Math.min(c / t, 1): 0/0 is NaN, c/0 is Infinity
MinWithOne(c, t) ==
    IF t = 0 THEN (IF c = 0 THEN NaN ELSE One)
    ELSE IF c >= t THEN One ELSE Frac(c, t)

\* the phase split: 0.3 and 0.7
W1 == <<3, 10>>
W2 == <<7, 10>>

\* subreddits.indexOf(name), 1-based
IndexOf(seq, x) == CHOOSE i \in 1..Len(seq) : seq[i] = x /\ \A j \in 1..(i - 1) : seq[j] # x

----------------------------------------------------------------------------
(* Requests and runs *)

SubLists == {<<1>>, <<1, 2>>}
PostLimits == {0, MaxPostLimit}

\* AnalysisRequest, the fields the acquisition reads
Requests ==
    [subreddits : SubLists, post_limit : PostLimits, include_comments : BOOLEAN]

NoRequest == [subreddits |-> <<>>, post_limit |-> 0, include_comments |-> FALSE]

\* One async call.  kind: "analysis" (fetch from Reddit, then stream),
\* "stream" (stream only), "snapshot".  pc: the await it is suspended in.
NewRun(kind, req) ==
    [kind |-> kind, pc |-> "start", req |-> req,
     subIdx |-> 1,          \* position of `for (const subreddit of subreddits)`
     subPosts |-> 0,        \* posts.length in fetchSubredditPosts
     attempt |-> 0,         \* attempt in fetchJson
     ci |-> 0,              \* i in the comment loop
     nFetch |-> 0,          \* postsToFetch.length
     allPosts |-> 0,        \* allPosts.length
     allComments |-> 0,     \* allComments.length
     completedReqs |-> 0,
     left |-> MaxFrames,    \* frames the response stream may still deliver
     posted |-> FALSE,      \* the POST to the server was sent
     reported |-> Null,     \* history: the last fraction fetchAllRedditData
                            \* passed to its callback
     ordered |-> TRUE,      \* history: these fractions were in [0,1] and
                            \* none was below the one before it
     early |-> FALSE,       \* history: a request was issued after the
                            \* fraction 1 had been reported
     remote |-> Null,       \* history: the last progress a remote event carried
     remoteOrdered |-> TRUE,  \* history: the remote events' progress values
                            \* were in [0,1] and none was below the one before
     yield |-> "none",      \* history: "zero", "some" or "mixed": what the
                            \* subreddits done so far returned
     fetched |-> FALSE,     \* history: fetchAllRedditData has returned
     seen |-> {},           \* history: the terminal events the observer got
     exit |-> "",           \* history: how the call ended
     failure |-> Null]      \* history: the message of its last failure

Sess == [status |-> status, progress |-> progress, stage |-> stage,
         message |-> message, result |-> result, error |-> error]

SetSession(s) ==
    /\ status' = s.status
    /\ progress' = s.progress
    /\ stage' = s.stage
    /\ message' = s.message
    /\ result' = s.result
    /\ error' = s.error

\* A run that has ended keeps only what it ended with.
Ended(run, how, why) ==
    [NewRun(run.kind, NoRequest) EXCEPT
        !.pc = "done", !.exit = how, !.left = 0,
        !.failure = IF why # Null THEN why ELSE run.failure,
        !.posted = run.posted, !.seen = run.seen,
        !.yield = run.yield, !.fetched = run.fetched,
        !.ordered = run.ordered, !.early = run.early,
        !.remote = run.remote, !.remoteOrdered = run.remoteOrdered]

----------------------------------------------------------------------------
(* The hook's callbacks and its catch clause; c is a context               *)
(* [run, s, ab]: the run, the hook's state, the run's signal.aborted.      *)

\* The fetch-progress callback passed to fetchAllRedditData
OnFetchProgress(s, msg, p) ==
    [s EXCEPT !.stage = "fetching", !.message = msg, !.progress = Times(p, W1)]

\* catch (err): an AbortError is ignored
CatchAbort(c) == [c EXCEPT !.run = Ended(c.run, "aborted", Null)]

\* catch (err): any other error
CatchError(c, msg) ==
    [c EXCEPT !.run = Ended(c.run, "failed", msg),
              !.s.status = "error", !.s.error = msg]

----------------------------------------------------------------------------
(* redditClient.ts.  Posts and comments are counted, not held.  Once the   *)
(* POST is sent the run keeps nothing of the acquisition.                  *)

\* a is a number in [0,1]
InUnit(a) == a # NaN /\ 0 <= a[1] /\ a[1] <= a[2]

\* a <= b on numbers: false when either is NaN
Leq(a, b) == a # NaN /\ b # NaN /\ a[1] * b[2] <= b[1] * a[2]

\* history: fetchAllRedditData passes the fraction p to its callback
Reported(run, p) ==
    [run EXCEPT !.ordered = /\ @
                              /\ InUnit(p)
                              /\ (run.reported = Null \/ Leq(run.reported, p)),
                !.reported = p]

\* history: fetchAllRedditData issues a request
Issued(run) == [run EXCEPT !.early = @ \/ run.reported = One]

TotalReqs(req) ==
    (Ceil(req.post_limit, PAGE_SIZE)
       + (IF req.include_comments THEN Min(req.post_limit, COMMENT_FETCH_CAP) ELSE 0))
    * Len(req.subreddits)

report(c, msg) ==
    LET p == MinWithOne(c.run.completedReqs, TotalReqs(c.run.req)) IN
    [c EXCEPT !.s = OnFetchProgress(c.s, msg, p), !.run = Reported(c.run, p)]

\* sleep(ms, signal): rejects at once on a raised signal, else waits at pc
Sleep(c, pc) ==
    IF c.ab THEN CatchAbort(c) ELSE [c EXCEPT !.run.pc = pc]

\* streamProcess / streamAnalysis: the POST; fetch rejects on a raised signal
IssuePost(c) ==
    IF c.ab THEN CatchAbort(c)
    ELSE [c EXCEPT !.run = [NewRun(c.run.kind, NoRequest) EXCEPT
                                !.pc = "post", !.posted = TRUE,
                                !.yield = c.run.yield, !.fetched = c.run.fetched,
                                !.ordered = c.run.ordered, !.early = c.run.early]]

\* AfterFetchAll without its check for an empty result
AfterFetchAllNoCheck(c) ==
    IssuePost([c EXCEPT !.s.stage = "analyzing", !.s.message = <<"sending">>,
                        !.s.progress = W1])

\* startAnalysis of the two-phase hook, after fetchAllRedditData has returned
AfterFetchAll(c) ==
    IF c.run.allPosts = 0
    THEN [c EXCEPT !.run = Ended(c.run, "noPosts", <<"noPosts">>),
                   !.s.status = "error", !.s.error = <<"noPosts">>]
    ELSE IssuePost([c EXCEPT !.s.stage = "analyzing", !.s.message = <<"sending">>,
                             !.s.progress = W1])

\* fetchAllRedditData after its loop: the final report and the return
Finish(c) ==
    AfterFetchAll([c EXCEPT !.s = OnFetchProgress(c.s,
                        <<"fetched", c.run.allPosts, c.run.allComments>>, One),
                            !.run = [Reported(c.run, One) EXCEPT !.fetched = TRUE]])

RECURSIVE EnterSub(_)
RECURSIVE CommentIter(_)

\* the end of one iteration of the loop over subreddits
AfterComments(c) ==
    LET subs == c.run.req.subreddits IN
    IF IndexOf(subs, subs[c.run.subIdx]) < Len(subs)
    THEN Sleep(c, "subSleep")
    ELSE EnterSub([c EXCEPT !.run.subIdx = @ + 1])

\* fetchPostComments has returned k comments (0 when it caught an error)
CommentDone(c, k) ==
    LET d == report([c EXCEPT !.run.allComments = @ + k, !.run.completedReqs = @ + 1],
                    <<"fetchedComments", c.run.ci + 1, c.run.nFetch>>)
    IN IF d.run.ci < d.run.nFetch - 1 THEN Sleep(d, "commentSleep")
       ELSE AfterComments(d)

\* one iteration of the comment loop, up to the fetch
CommentIter(c) ==
    LET d == report(c, <<"fetchingComments", c.run.ci + 1, c.run.nFetch>>) IN
    IF d.ab THEN CommentDone(d, 0)   \* fetch rejects, fetchPostComments catches
    ELSE [d EXCEPT !.run = [Issued(d.run) EXCEPT !.pc = "comment", !.attempt = 0]]

\* history: one more subreddit has returned `posts` posts
Yield(y, posts) ==
    IF posts = 0 THEN (IF y \in {"none", "zero"} THEN "zero" ELSE "mixed")
    ELSE (IF y \in {"none", "some"} THEN "some" ELSE "mixed")

\* fetchSubredditPosts has returned: slice, push, then the comment loop
AfterPosts(c) ==
    LET limit == c.run.req.post_limit
        posts == Min(c.run.subPosts, limit)
        d == [c EXCEPT !.run.allPosts = @ + posts, !.run.subPosts = 0,
                       !.run.yield = Yield(@, posts)]
    IN IF d.run.req.include_comments /\ posts > 0
       THEN CommentIter([d EXCEPT !.run.ci = 0,
                                  !.run.nFetch = Min(posts, Min(limit, COMMENT_FETCH_CAP))])
       ELSE AfterComments(d)

\* the head of the while loop of fetchSubredditPosts
PageLoop(c) ==
    IF c.run.subPosts < c.run.req.post_limit
    THEN (IF c.ab THEN CatchAbort(c)
          ELSE [c EXCEPT !.run = [Issued(c.run) EXCEPT !.pc = "page", !.attempt = 0]])
    ELSE AfterPosts(c)

\* the head of the loop over subreddits
EnterSub(c) ==
    IF c.run.subIdx > Len(c.run.req.subreddits) THEN Finish(c)
    ELSE PageLoop(report([c EXCEPT !.run.subPosts = 0],
                         <<"fetchingPosts", c.run.req.subreddits[c.run.subIdx]>>))

\* a page of k children has arrived, with or without a cursor
PageArrived(c, k, after) ==
    LET batchSize == Min(PAGE_SIZE, c.run.req.post_limit - c.run.subPosts) IN
    IF k = 0 THEN AfterPosts(c)
    ELSE LET fetched == c.run.subPosts + k
             pagesDone == Ceil(fetched, PAGE_SIZE)
             d == report([c EXCEPT !.run.subPosts = fetched,
                                   !.run.completedReqs =
                                       @ - (IF pagesDone > 1 THEN pagesDone - 1 ELSE 0) + pagesDone],
                         <<"pageProgress", fetched, c.run.req.post_limit>>)
         IN IF ~after \/ k < batchSize THEN AfterPosts(d)
            ELSE Sleep(d, "pageSleep")

----------------------------------------------------------------------------
(* The stream consumer and the hook's observer *)

Malformed == [stage |-> "malformed", message |-> Null, progress |-> Null, data |-> Null]

\* The frames a response stream may carry: ProgressEvents and frames that
\* fail to decode.  r tells the results of different runs apart.
Frames(r) ==
    { [stage |-> "analyzing", message |-> <<"event", 1>>, progress |-> <<1, 2>>, data |-> Null],
      [stage |-> "complete", message |-> Null, progress |-> One, data |-> Null],
      [stage |-> "results", message |-> Null, progress |-> Null, data |-> <<"data", r>>],
      [stage |-> "results", message |-> Null, progress |-> Null, data |-> Null],
      [stage |-> "error", message |-> <<"event", 2>>, progress |-> Null, data |-> Null],
      [stage |-> "error", message |-> Null, progress |-> Null, data |-> Null],
      Malformed }

\* overall progress for a server progress p: the two-phase hook maps it
\* into 0.3..1, the stream-only hook takes it as it is
MapProgress(kind, p) ==
    IF kind = "analysis" THEN Plus(W1, Times(p, W2)) ELSE p

\* history: a remote event is dispatched to the observer
Heard(run, e) ==
    IF e.progress = Null THEN run
    ELSE [run EXCEPT !.remote = e.progress,
                     !.remoteOrdered = /\ @
                                       /\ InUnit(e.progress)
                                       /\ (run.remote = Null \/ Leq(run.remote, e.progress))]

\* the state setters of the observer passed to streamProcess / streamAnalysis
Observed(c, e) ==
    LET s1 == [c.s EXCEPT !.stage = e.stage]
        s2 == IF e.message # Null THEN [s1 EXCEPT !.message = e.message] ELSE s1
        s3 == IF e.progress # Null
              THEN [s2 EXCEPT !.progress = MapProgress(c.run.kind, e.progress)] ELSE s2
        msg == IF e.message # Null THEN e.message ELSE <<"unknown">>
    IN IF e.stage = "error"
       THEN [c EXCEPT !.s = [s3 EXCEPT !.status = "error", !.error = msg],
                      !.run.seen = @ \cup {"error"}, !.run.failure = msg]
       ELSE IF e.stage = "results" /\ e.data # Null
       THEN [c EXCEPT !.s = [s3 EXCEPT !.result = e.data, !.status = "done"],
                      !.run.seen = @ \cup {"results"}]
       ELSE [c EXCEPT !.s = s3]

\* the observer passed to streamProcess / streamAnalysis
Observer(c, e) == Observed([c EXCEPT !.run = Heard(c.run, e)], e)

\* the loop over the complete frames of one chunk: a frame that does not
\* decode is skipped, every other one goes to the observer
RECURSIVE Dispatch(_, _)
Dispatch(c, frames) ==
    IF frames = <<>> THEN c
    ELSE Dispatch(IF Head(frames) = Malformed THEN c ELSE Observer(c, Head(frames)),
                  Tail(frames))

----------------------------------------------------------------------------
(* The state after construction *)

HookInit ==
    /\ status = "idle"
    /\ progress = Zero
    /\ stage = ""
    /\ message = <<"">>
    /\ result = Null
    /\ error = Null
    /\ abortRef = 0
    /\ aborted = <<>>
    /\ runs = <<>>
    /\ pendingAbort = 0
    /\ calls = 0
    /\ lastOp = "none"

\* no part is exercised alone
PartsIdle ==
    /\ fetcher = Null
    /\ collector = Null
    /\ extractor = Null
    /\ consumer = Null
    /\ composer = Null
    /\ acquirer = Null
    /\ sleeper = Null

Init ==
    /\ hook \in {"twoPhase", "snapshot"}
    /\ HookInit
    /\ PartsIdle

Runs == 1..Len(runs)

Live(r) == runs[r].pc # "done"

Ctx(r) == [run |-> runs[r], s |-> Sess, ab |-> aborted[r]]

\* a run has run up to its next await
Commit(r, c) ==
    /\ runs' = [runs EXCEPT ![r] = c.run]
    /\ SetSession(c.s)
    /\ UNCHANGED <<hook, abortRef, aborted, calls, lastOp, partVars>>

\* AbortCurrent without the call of abort()
AbortCurrentNot == aborted

\* abortRef.current?.abort(): raises the signal; the run it belongs to, if
\* suspended, rejects in a microtask
AbortCurrent ==
    IF abortRef = 0 THEN aborted
    ELSE [aborted EXCEPT ![abortRef] = TRUE]

Woken ==
    IF abortRef # 0 /\ ~aborted[abortRef] /\ Live(abortRef) THEN abortRef ELSE 0

----------------------------------------------------------------------------
(* The hook's operations *)

\* Loading without setResult(null)
LoadingKeepsResult(st, msg) ==
    [status |-> "loading", progress |-> Zero, stage |-> st, message |-> msg,
     error |-> Null, result |-> result]

\* the setters at the head of startAnalysis, startSampleAnalysis and
\* loadSnapshot
Loading(st, msg) ==
    [status |-> "loading", progress |-> Zero, stage |-> st, message |-> msg,
     error |-> Null, result |-> Null]

\* history is kept of the calls still running and of the last one only:
\* when a call starts, the calls that have ended are forgotten
Forgotten(rs) ==
    [i \in DOMAIN rs |->
        IF rs[i].pc = "done" THEN Ended(NewRun(rs[i].kind, NoRequest), "", Null)
        ELSE rs[i]]

\* a hook operation is called
Call(op) ==
    /\ pendingAbort = 0
    /\ calls < MaxCalls
    /\ calls' = calls + 1
    /\ lastOp' = op
    /\ UNCHANGED <<hook, partVars>>

\* startAnalysis(request) of the two-phase hook, up to its first await
startAnalysis(req) ==
    /\ hook = "twoPhase"
    /\ Call("start")
    /\ Len(runs) < MaxRuns
    /\ LET c == EnterSub([run |-> NewRun("analysis", req),
                          s |-> Loading("fetching", <<"starting">>),
                          ab |-> FALSE])
       IN /\ runs' = Append(Forgotten(runs), c.run)
          /\ SetSession(c.s)
    /\ aborted' = Append(AbortCurrent, FALSE)
    /\ pendingAbort' = Woken
    /\ abortRef' = Len(runs) + 1

\* startAnalysis(request) and startSampleAnalysis(subreddit) of the hook
\* with snapshots: the stream phase alone
startStream ==
    /\ hook = "snapshot"
    /\ Call("start")
    /\ Len(runs) < MaxRuns
    /\ LET c == IssuePost([run |-> NewRun("stream", NoRequest),
                           s |-> Loading("", <<"">>),
                           ab |-> FALSE])
       IN /\ runs' = Append(Forgotten(runs), c.run)
          /\ SetSession(c.s)
    /\ aborted' = Append(AbortCurrent, FALSE)
    /\ pendingAbort' = Woken
    /\ abortRef' = Len(runs) + 1

\* cancel()
cancel ==
    /\ Call(IF \E r \in Runs : Live(r) THEN "cancel" ELSE "cancelIdle")
    /\ aborted' = AbortCurrent
    /\ pendingAbort' = Woken
    /\ status' = "idle"
    /\ UNCHANGED <<progress, stage, message, result, error, abortRef, runs>>

\* loadResult(data)
loadResult ==
    /\ Call("loadResult")
    /\ result' = <<"loaded", 0>>
    /\ status' = "done"
    /\ error' = Null
    /\ progress' = One
    /\ stage' = "complete"
    /\ message' = <<"">>
    /\ UNCHANGED <<abortRef, aborted, runs, pendingAbort>>

\* loadSnapshot(date, subreddit), up to its await
loadSnapshot ==
    /\ hook = "snapshot"
    /\ Call("loadSnapshot")
    /\ Len(runs) < MaxRuns
    /\ SetSession(Loading("", <<"">>))
    /\ runs' = Append(Forgotten(runs),
                       [NewRun("snapshot", NoRequest) EXCEPT !.pc = "snapshot"])
    /\ aborted' = Append(aborted, FALSE)
    /\ UNCHANGED <<abortRef, pendingAbort>>

\* reset()
reset ==
    /\ hook = "snapshot"
    /\ Call("reset")
    /\ status' = "idle"
    /\ result' = Null
    /\ error' = Null
    /\ progress' = Zero
    /\ stage' = ""
    /\ message' = <<"">>
    /\ UNCHANGED <<abortRef, aborted, runs, pendingAbort>>

----------------------------------------------------------------------------
(* The resumptions of a suspended run *)

Resumable(r, pcs) == pendingAbort = 0 /\ r \in Runs /\ runs[r].pc \in pcs

\* what fetchJson does with a 429: the backoff sleep
Backoff(c, pc) == Sleep(c, pc)

\* fetchSubredditPosts: the response to a page request
PageResponse(r) ==
    /\ Resumable(r, {"page"})
    /\ LET c == Ctx(r)
           batchSize == Min(PAGE_SIZE, c.run.req.post_limit - c.run.subPosts)
       IN \/ \E k \in {0, 1, batchSize}, after \in BOOLEAN :
                Commit(r, PageArrived(c, k, after))
          \/ Commit(r, Backoff(c, "pageBackoff"))
          \/ \E st \in {500} : Commit(r, CatchError(c, <<"redditHttp", st>>))
          \/ Commit(r, CatchError(c, <<"network">>))
    /\ UNCHANGED pendingAbort

\* fetchJson: the backoff is over; the next attempt, or the rate-limit error
PageBackoffDone(r) ==
    /\ Resumable(r, {"pageBackoff"})
    /\ LET c == Ctx(r) IN
         IF c.run.attempt + 1 < MAX_RETRIES
         THEN Commit(r, [c EXCEPT !.run.pc = "page", !.run.attempt = @ + 1])
         ELSE Commit(r, CatchError(c, <<"rateLimited">>))
    /\ UNCHANGED pendingAbort

\* the delay between two pages is over
PageSleepDone(r) ==
    /\ Resumable(r, {"pageSleep"})
    /\ Commit(r, PageLoop(Ctx(r)))
    /\ UNCHANGED pendingAbort

\* fetchPostComments: the response to a comment-tree request; every
\* failure is caught and gives no comments
CommentResponse(r) ==
    /\ Resumable(r, {"comment"})
    /\ LET c == Ctx(r)
       IN \/ \E k \in {0, 1} : Commit(r, CommentDone(c, k))
          \/ Commit(r, Backoff(c, "commentBackoff"))
          \/ Commit(r, CommentDone(c, 0))
    /\ UNCHANGED pendingAbort

CommentBackoffDone(r) ==
    /\ Resumable(r, {"commentBackoff"})
    /\ LET c == Ctx(r) IN
         IF c.run.attempt + 1 < MAX_RETRIES
         THEN Commit(r, [c EXCEPT !.run.pc = "comment", !.run.attempt = @ + 1])
         ELSE Commit(r, CommentDone(c, 0))
    /\ UNCHANGED pendingAbort

\* the delay between two comment fetches is over
CommentSleepDone(r) ==
    /\ Resumable(r, {"commentSleep"})
    /\ Commit(r, CommentIter([Ctx(r) EXCEPT !.run.ci = @ + 1]))
    /\ UNCHANGED pendingAbort

\* the delay between two subreddits is over
SubSleepDone(r) ==
    /\ Resumable(r, {"subSleep"})
    /\ Commit(r, EnterSub([Ctx(r) EXCEPT !.run.subIdx = @ + 1]))
    /\ UNCHANGED pendingAbort

\* the server's response to the POST
PostResponse(r) ==
    /\ Resumable(r, {"post"})
    /\ LET c == Ctx(r)
       IN \/ Commit(r, [c EXCEPT !.run.pc = "stream"])
          \/ \E st \in {500} : Commit(r, CatchError(c, <<"HTTP", st>>))
          \/ Commit(r, CatchError(c, <<"noBody">>))
          \/ Commit(r, CatchError(c, <<"network">>))
    /\ UNCHANGED pendingAbort

\* reader.read() has returned a chunk that completes n frames
StreamChunk(r) ==
    /\ Resumable(r, {"stream"})
    /\ \E n \in 1..runs[r].left : \E frames \in [1..n -> Frames(r)] :
         Commit(r, Dispatch([Ctx(r) EXCEPT !.run.left = @ - n], frames))
    /\ UNCHANGED pendingAbort

\* reader.read() has returned done: the call returns
StreamEnd(r) ==
    /\ Resumable(r, {"stream"})
    /\ Commit(r, [Ctx(r) EXCEPT !.run = Ended(@, "returned", Null)])
    /\ UNCHANGED pendingAbort

\* reader.read() has rejected: the connection broke
StreamBroken(r) ==
    /\ Resumable(r, {"stream"})
    /\ Commit(r, CatchError(Ctx(r), <<"network">>))
    /\ UNCHANGED pendingAbort

\* loadSnapshot: fetchSnapshot has settled
SnapshotSettled(r) ==
    /\ Resumable(r, {"snapshot"})
    /\ LET c == Ctx(r)
       IN \/ Commit(r, [c EXCEPT !.run = Ended(@, "returned", Null),
                                 !.s.result = <<"snapshot", r>>,
                                 !.s.status = "done",
                                 !.s.progress = One,
                                 !.s.stage = "complete"])
          \/ Commit(r, CatchError(c, <<"HTTP", 404>>))
    /\ UNCHANGED pendingAbort

\* the microtask of an aborted run: its pending fetch or sleep rejects.
\* fetchPostComments catches the rejection like any other error and the
\* comment loop goes on; everywhere else it reaches the hook's catch.
AbortWake(r) ==
    /\ pendingAbort = r
    /\ r \in Runs
    /\ LET c == Ctx(r) IN
         IF c.run.pc \in {"comment", "commentBackoff"}
         THEN Commit(r, CommentDone(c, 0))
         ELSE Commit(r, CatchAbort(c))
    /\ pendingAbort' = 0

Next ==
    \/ \E req \in Requests : startAnalysis(req)
    \/ startStream
    \/ cancel
    \/ loadResult
    \/ loadSnapshot
    \/ reset
    \/ \E r \in 1..MaxRuns :
         \/ PageResponse(r)
         \/ PageBackoffDone(r)
         \/ PageSleepDone(r)
         \/ CommentResponse(r)
         \/ CommentBackoffDone(r)
         \/ CommentSleepDone(r)
         \/ SubSleepDone(r)
         \/ PostResponse(r)
         \/ StreamChunk(r)
         \/ StreamEnd(r)
         \/ StreamBroken(r)
         \/ SnapshotSettled(r)
         \/ AbortWake(r)

Spec == Init /\ [][Next]_vars

----------------------------------------------------------------------------
(* fetchJson alone: one call against a server whose responses are given.  *)
(* A response is its HTTP status; 0 stands for a fetch that rejects (the   *)
(* network failed).                                                        *)

Statuses == {0, 200, 404, 429, 500}

Urls == {<<"posts">>, <<"comments">>}

\* resp.ok
Ok(st) == st \in 200..299

\* the payload resp.json() decodes for a url
Payload(url) == <<"json", url>>

\* the for loop's condition for the attempt after `attempt`, stricter by one
MoreAttemptsLate(attempt) == attempt + 1 <= MAX_RETRIES

\* the for loop's condition for the attempt after `attempt`
MoreAttempts(attempt) == attempt + 1 < MAX_RETRIES

\* fetchJson ends: it returns or throws
Settle(f, how, what) == [f EXCEPT !.pc = "done", !.outcome = <<how, what>>]

\* Respond with every failure status taken for a rate limit
RespondRetryAll(f, st) ==
    IF st = 0 THEN Settle(f, "error", <<"network">>)
    ELSE IF ~Ok(st) THEN [f EXCEPT !.pc = "backoff", !.waits = @ + 1]
    ELSE Settle(f, "ok", Payload(f.url))

\* the body of the loop once fetch has settled with status st
Respond(f, st) ==
    IF st = 0 THEN Settle(f, "error", <<"network">>)
    ELSE IF st = 429 THEN [f EXCEPT !.pc = "backoff", !.waits = @ + 1]
    ELSE IF ~Ok(st) THEN Settle(f, "error", <<"redditHttp", st, f.url>>)
    ELSE Settle(f, "ok", Payload(f.url))

\* sleep(ms, signal), called on a signal that is raised or not: on a raised
\* signal it rejects before setTimeout, else it sets the timer and listens
sleep(raised) ==
    IF raised
    THEN [pc |-> "done", raised |-> TRUE, timer |-> "none",
          outcome |-> <<"error", <<"abort">>>>]
    ELSE [pc |-> "waiting", raised |-> FALSE, timer |-> "set", outcome |-> Null]

\* the call: attempt 0 issues the first request; beside it, one call of sleep
FetcherInit ==
    /\ fetcher \in [url : Urls,
                    script : [1..(MAX_RETRIES + 1) -> Statuses],
                    attempt : {0}, pc : {"fetch"}, requests : {1}, waits : {0},
                    aborted : {FALSE}, outcome : {Null}]
    /\ collector = Null /\ extractor = Null /\ consumer = Null /\ composer = Null
    /\ acquirer = Null
    /\ sleeper \in {sleep(raised) : raised \in BOOLEAN}
    /\ hook = "twoPhase"
    /\ HookInit

\* await fetch(url, { signal }) settles with the server's next response
FetchSettled ==
    /\ fetcher.pc = "fetch"
    /\ fetcher' = Respond(fetcher, fetcher.script[fetcher.requests])
    /\ UNCHANGED <<hookVars, collector, extractor, consumer, composer, acquirer, sleeper>>

\* await sleep(BACKOFF_DELAY, signal) is over: continue
BackoffOver ==
    /\ fetcher.pc = "backoff"
    /\ fetcher' = IF MoreAttempts(fetcher.attempt)
                  THEN [fetcher EXCEPT !.attempt = @ + 1, !.pc = "fetch",
                                       !.requests = @ + 1]
                  ELSE Settle([fetcher EXCEPT !.attempt = @ + 1],
                              "error", <<"rateLimited">>)
    /\ UNCHANGED <<hookVars, collector, extractor, consumer, composer, acquirer, sleeper>>

\* Interrupted with a backoff sleep that was not given the signal
InterruptedInFetchOnly(f) ==
    IF f.pc = "backoff" THEN [f EXCEPT !.aborted = TRUE]
    ELSE Settle([f EXCEPT !.aborted = TRUE], "error", <<"abort">>)

\* the signal is raised while the call waits in fetch(url, { signal }) or
\* in sleep(BACKOFF_DELAY, signal): either rejects and fetchJson throws
Interrupted(f) == Settle([f EXCEPT !.aborted = TRUE], "error", <<"abort">>)

\* the signal is raised: the pending fetch or sleep rejects
FetchAborted ==
    /\ fetcher.pc \in {"fetch", "backoff"}
    /\ ~fetcher.aborted
    /\ fetcher' = Interrupted(fetcher)
    /\ UNCHANGED <<hookVars, collector, extractor, consumer, composer, acquirer, sleeper>>

\* sleep: the timer fires and the promise resolves
SleepOver ==
    /\ sleeper.pc = "waiting"
    /\ sleeper' = [sleeper EXCEPT !.pc = "done", !.timer = "fired",
                                  !.outcome = <<"ok", Null>>]
    /\ UNCHANGED <<hookVars, fetcher, collector, extractor, consumer, composer, acquirer>>

\* sleep: the signal is raised; the listener clears the timer and rejects
SleepAborted ==
    /\ sleeper.pc = "waiting"
    /\ sleeper' = [sleeper EXCEPT !.pc = "done", !.raised = TRUE, !.timer = "cleared",
                                  !.outcome = <<"error", <<"abort">>>>]
    /\ UNCHANGED <<hookVars, fetcher, collector, extractor, consumer, composer, acquirer>>

FetcherNext == FetchSettled \/ BackoffOver \/ FetchAborted \/ SleepOver \/ SleepAborted

SpecFetchJson == FetcherInit /\ [][FetcherNext]_vars

----------------------------------------------------------------------------
(* fetchSubredditPosts alone, against a listing of `available` posts,      *)
(* numbered 1, 2, ... in listing order.  A cursor is the number of the     *)
(* last post of a page; 0 is no cursor (null).  The listing answers a      *)
(* request for `size` posts after a cursor with the next `size + over`     *)
(* posts it has (one fewer when `over` is -1), and with a cursor when more *)
(* posts follow (or always, when cursorAtEnd); its request number failAt   *)
(* fails (0: none does).                                                   *)

MaxPages == 2         \* the target counts reach MaxPages pages and one post

Targets ==
    {0, 1, 2} \cup {k * PAGE_SIZE + d : k \in 1..MaxPages, d \in {-1, 0, 1}}

\* the posts from..to of the listing
Listed(from, to) == [i \in 1..(IF to >= from THEN to - from + 1 ELSE 0) |-> from + i - 1]

\* the children of the page after cursor `after`
Children(c, after, size) ==
    Listed(after + 1, Min(after + size + c.over, c.available))

\* the return without the slice
Unsliced(posts, limit) == posts

\* posts.slice(0, limit)
Sliced(posts, limit) == SubSeq(posts, 1, Min(Len(posts), limit))

\* return posts.slice(0, limit)
Collected(c) ==
    [c EXCEPT !.pc = "done", !.outcome = "returned",
              !.result = Sliced(c.posts, c.limit)]

\* the head of the while loop: the next request, or the return.  asked is
\* history: the limit and the cursor (0: none) each request carries
CollectLoop(c) ==
    IF Len(c.posts) < c.limit
    THEN [c EXCEPT !.pc = "fetch", !.pages = @ + 1,
                   !.asked = Append(@, [limit |-> Min(PAGE_SIZE, c.limit - Len(c.posts)),
                                        after |-> c.after])]
    ELSE Collected(c)

\* NextCursor that keeps the first cursor it got
FirstCursor(c, returned) == IF c.after # 0 THEN c.after ELSE returned

\* after = listing?.after ?? null
NextCursor(c, returned) == returned

\* LastPage without the test for a short page
LastPageByCursor(children, batchSize, after) == after = 0

\* if (!after || children.length < batchSize) break
LastPage(children, batchSize, after) == after = 0 \/ Len(children) < batchSize

\* the loop body once the page has arrived.  cursors is history: the cursor
\* that came with each page (0: none)
CollectPage(c) ==
    LET batchSize == Min(PAGE_SIZE, c.limit - Len(c.posts))
        children == Children(c, c.after, batchSize)
        last == c.after + Len(children)
        returned == IF last < c.available \/ c.cursorAtEnd THEN last ELSE 0
        b == [c EXCEPT !.cursors = Append(@, returned)]
    IN IF Len(children) = 0 THEN Collected(b)
       ELSE LET after == NextCursor(b, returned)
                d == [b EXCEPT !.posts = @ \o children, !.after = after] IN
            IF LastPage(children, batchSize, after) THEN Collected(d)
            ELSE [d EXCEPT !.pc = "sleep"]

CollectorInit ==
    /\ collector \in
         { CollectLoop(c) : c \in
             [limit : Targets, available : Targets, over : {-1, 0, 1},
              cursorAtEnd : BOOLEAN, failAt : {0, 1, 2},
              posts : {<<>>}, after : {0}, pages : {0}, pc : {"start"},
              asked : {<<>>}, cursors : {<<>>},
              outcome : {""}, result : {<<>>}] }
    /\ fetcher = Null /\ extractor = Null /\ consumer = Null /\ composer = Null
    /\ acquirer = Null /\ sleeper = Null
    /\ hook = "twoPhase"
    /\ HookInit

\* await fetchJson(url, signal) has returned the page
PageFetched ==
    /\ collector.pc = "fetch"
    /\ collector.pages # collector.failAt
    /\ collector' = CollectPage(collector)
    /\ UNCHANGED <<hookVars, fetcher, extractor, consumer, composer, acquirer, sleeper>>

\* await fetchJson(url, signal) has thrown
PageFailed ==
    /\ collector.pc = "fetch"
    /\ collector.pages = collector.failAt
    /\ collector' = [collector EXCEPT !.pc = "done", !.outcome = "threw"]
    /\ UNCHANGED <<hookVars, fetcher, extractor, consumer, composer, acquirer, sleeper>>

\* await sleep(RATE_LIMIT_DELAY, signal) is over
PageDelayOver ==
    /\ collector.pc = "sleep"
    /\ collector' = CollectLoop(collector)
    /\ UNCHANGED <<hookVars, fetcher, extractor, consumer, composer, acquirer, sleeper>>

CollectorNext == PageFetched \/ PageFailed \/ PageDelayOver

SpecCollector == CollectorInit /\ [][CollectorNext]_vars

\* every awaited fetchJson settles and every delay ends
SpecCollectorFair == SpecCollector /\ WF_vars(CollectorNext)

----------------------------------------------------------------------------
(* extractComments alone.  A node of a reply tree is [kind, body, replies]; *)
(* replies is the list of its children (empty when Reddit sends "" or no   *)
(* children).  A node is named by its path: its position among the top     *)
(* level nodes, then among the replies of each node on the way down; its   *)
(* depth is the length of the path less one.  An extracted comment keeps   *)
(* the path of its node as its id.                                         *)

MaxTreeDepth == 3     \* the levels of the reply trees

Bodies == {"", "[deleted]", "[removed]", "text"}

\* kind and body of a node: a comment, or the "load more" stub
Heads == [kind : {"t1"}, body : Bodies] \cup [kind : {"more"}, body : {""}]

Node(h, replies) == [kind |-> h.kind, body |-> h.body, replies |-> replies]

\* the nodes with at most d levels, each with at most one reply
RECURSIVE Nodes(_)
Nodes(d) ==
    IF d = 0 THEN {}
    ELSE { Node(h, r) : h \in Heads, r \in {<<>>} \cup { <<n>> : n \in Nodes(d - 1) } }

\* the reply trees: one node, or a node and a second without replies
Trees ==
    { <<n>> : n \in Nodes(MaxTreeDepth) }
      \cup { <<n, m>> : n \in Nodes(MaxTreeDepth), m \in Nodes(1) }

\* the depth test, later by one level
TooDeepLate(currentDepth, maxDepth) == currentDepth > maxDepth

\* if (currentDepth >= maxDepth) return []
TooDeep(currentDepth, maxDepth) == currentDepth >= maxDepth

\* body && body !== '[deleted]' && body !== '[removed]'
Kept(body) == body # "" /\ body # "[deleted]" /\ body # "[removed]"

\* no child is passed over
SkippedNever(child) == FALSE

\* if (child.kind !== 't1') continue
Skipped(child) == child.kind # "t1"

RECURSIVE extractComments(_, _, _, _)
RECURSIVE ExtractFrom(_, _, _, _, _)

\* the for loop of extractComments, from child i on
ExtractFrom(children, i, maxDepth, currentDepth, path) ==
    IF i > Len(children) THEN <<>>
    ELSE LET child == children[i]
             own == IF Kept(child.body)
                    THEN <<[id |-> path \o <<i>>, body |-> child.body]>> ELSE <<>>
             below == extractComments(child.replies, maxDepth, currentDepth + 1,
                                      path \o <<i>>)
         IN (IF Skipped(child) THEN <<>> ELSE own \o below)
              \o ExtractFrom(children, i + 1, maxDepth, currentDepth, path)

extractComments(children, maxDepth, currentDepth, path) ==
    IF TooDeep(currentDepth, maxDepth) THEN <<>>
    ELSE ExtractFrom(children, 1, maxDepth, currentDepth, path)

ExtractorInit ==
    /\ extractor \in [children : Trees, maxDepth : 0..MaxTreeDepth,
                      pc : {"call"}, comments : {<<>>}]
    /\ fetcher = Null /\ collector = Null /\ consumer = Null /\ composer = Null
    /\ acquirer = Null /\ sleeper = Null
    /\ hook = "twoPhase"
    /\ HookInit

\* extractComments(commentChildren, postId, subreddit, depth)
Extract ==
    /\ extractor.pc = "call"
    /\ extractor' = [extractor EXCEPT
                        !.pc = "done",
                        !.comments = extractComments(extractor.children,
                                                     extractor.maxDepth, 0, <<>>)]
    /\ UNCHANGED <<hookVars, fetcher, collector, consumer, composer, acquirer, sleeper>>

ExtractorNext == Extract

SpecExtractor == ExtractorInit /\ [][ExtractorNext]_vars

----------------------------------------------------------------------------
(* The progress arithmetic of startAnalysis as JavaScript computes it: in   *)
(* IEEE 754 doubles, each operation rounded to the nearest double, ties to *)
(* even.  A double here is zero or positive: [m, e] stands for m * 2^e,    *)
(* m a natural number written in bits, lowest first, odd unless zero, so   *)
(* that equal numbers are equal records.  (The sessions above keep the     *)
(* exact fractions: rounding keeps the order of the values.)               *)

MantissaBits == 53    \* the significand of a double

MaxProgressBits == 6  \* the fractions composed are k / 2^MaxProgressBits

RECURSIVE Pow2(_)
Pow2(n) == IF n = 0 THEN 1 ELSE 2 * Pow2(n - 1)

RECURSIVE Reverse(_)
Reverse(s) == IF s = <<>> THEN <<>> ELSE Append(Reverse(Tail(s)), Head(s))

RECURSIVE StripHigh(_)
StripHigh(bits) ==
    IF bits # <<>> /\ bits[Len(bits)] = 0
    THEN StripHigh(SubSeq(bits, 1, Len(bits) - 1)) ELSE bits

\* m * 2^e with m odd or zero
RECURSIVE Canon(_, _)
Canon(bits, e) ==
    IF bits = <<>> THEN [m |-> <<>>, e |-> 0]
    ELSE IF Head(bits) = 0 THEN Canon(Tail(bits), e + 1)
    ELSE [m |-> bits, e |-> e]

\* a + b + carry on bits
RECURSIVE AddBits(_, _, _)
AddBits(a, b, carry) ==
    IF a = <<>> /\ b = <<>> THEN (IF carry = 1 THEN <<1>> ELSE <<>>)
    ELSE LET x == IF a = <<>> THEN 0 ELSE Head(a)
             y == IF b = <<>> THEN 0 ELSE Head(b)
             s == x + y + carry
         IN <<s % 2>> \o AddBits(IF a = <<>> THEN a ELSE Tail(a),
                                 IF b = <<>> THEN b ELSE Tail(b), s \div 2)

\* a * b on bits
RECURSIVE MulBits(_, _)
MulBits(a, b) ==
    IF b = <<>> THEN <<>>
    ELSE LET rest == <<0>> \o MulBits(a, Tail(b)) IN
         IF Head(b) = 1 THEN AddBits(a, rest, 0) ELSE rest

\* bits * 2^n
ShiftLeft(bits, n) == [i \in 1..n |-> 0] \o bits

\* the nearest double to bits * 2^e, ties to even
Round(bits, e) ==
    LET b == StripHigh(bits)
        s == Len(b) - MantissaBits
    IN IF s <= 0 THEN Canon(b, e)
       ELSE LET kept == SubSeq(b, s + 1, Len(b))
                guard == b[s]
                sticky == \E i \in 1..(s - 1) : b[i] = 1
                up == guard = 1 /\ (sticky \/ Head(kept) = 1)
            IN Canon(IF up THEN AddBits(kept, <<1>>, 0) ELSE kept, e + s)

\* the bits of r / d after the binary point, highest first: two more than
\* the significand holds, then one more when a remainder is left
RECURSIVE FractionBits(_, _, _)
FractionBits(r, d, significant) ==
    IF r = 0 THEN <<>>
    ELSE IF significant = MantissaBits + 2 THEN <<1>>
    ELSE LET bit == IF 2 * r >= d THEN 1 ELSE 0 IN
         <<bit>> \o FractionBits(2 * r - bit * d, d,
                        IF significant > 0 \/ bit = 1 THEN significant + 1 ELSE 0)

\* the double a literal n/d (0 <= n <= d) denotes
Dbl(n, d) ==
    IF n = d THEN [m |-> <<1>>, e |-> 0]
    ELSE LET f == FractionBits(n, d, 0) IN Round(Reverse(f), 0 - Len(f))

\* x * y, with y held exactly by few bits
DMul(x, y) == Round(MulBits(x.m, y.m), x.e + y.e)

\* x + y
DAdd(x, y) ==
    LET e == Min(x.e, y.e) IN
    Round(AddBits(ShiftLeft(x.m, x.e - e), ShiftLeft(y.m, y.e - e), 0), e)

\* ComposeRemote with the two weights exchanged
ComposeRemoteSwapped(p) == DAdd(Dbl(7, 10), DMul(Dbl(3, 10), p))

\* setProgress(0.3 + event.progress * 0.7)
ComposeRemote(p) == DAdd(Dbl(3, 10), DMul(Dbl(7, 10), p))

\* setProgress(fetchProgress.progress * 0.3)
ComposeAcquisition(p) == DMul(Dbl(3, 10), p)

ComposerInit ==
    /\ composer \in [phase : {"acquisition", "remote"},
                     k : 0..Pow2(MaxProgressBits),
                     pc : {"event"}, progress : {Dbl(0, 1)}]
    /\ fetcher = Null /\ collector = Null /\ extractor = Null /\ consumer = Null
    /\ acquirer = Null /\ sleeper = Null
    /\ hook = "twoPhase"
    /\ HookInit

\* the progress an event carries: k / 2^MaxProgressBits
Carried(k) == Dbl(k, Pow2(MaxProgressBits))

\* the fetch-progress callback sets the session's progress
AcquisitionProgress ==
    /\ composer.pc = "event"
    /\ composer.phase = "acquisition"
    /\ composer' = [composer EXCEPT !.pc = "set",
                       !.progress = ComposeAcquisition(Carried(composer.k))]
    /\ UNCHANGED <<hookVars, fetcher, collector, extractor, consumer, acquirer, sleeper>>

\* the stream observer sets the session's progress
RemoteProgress ==
    /\ composer.pc = "event"
    /\ composer.phase = "remote"
    /\ composer' = [composer EXCEPT !.pc = "set",
                       !.progress = ComposeRemote(Carried(composer.k))]
    /\ UNCHANGED <<hookVars, fetcher, collector, extractor, consumer, acquirer, sleeper>>

ComposerNext == AcquisitionProgress \/ RemoteProgress

SpecCompose == ComposerInit /\ [][ComposerNext]_vars

----------------------------------------------------------------------------
(* The read loop of streamAnalysis alone, on the text of a response.  Text *)
(* is a sequence of characters (the responses here are ASCII, one byte a   *)
(* character).  JSON.parse is modelled on numbers: a payload decodes when, *)
(* white space around it aside, it is a run of the digits 1 and 2; the     *)
(* event dispatched is that run.                                           *)

MaxPieces == 3        \* the pieces a response is made of

NL == "\n"

DataPrefix == <<"d", "a", "t", "a", ":", " ">>

Delimiter == <<NL, NL>>

\* a frame as the server writes it
Frame(payload) == DataPrefix \o payload \o Delimiter

\* the pieces of a response: frames that decode, a frame that does not,
\* a frame without its delimiter, a lone line feed, a blank; value is the
\* event a frame carries (null when it does not decode)
Pieces ==
    { [text |-> Frame(<<"1">>), frame |-> TRUE, value |-> <<"1">>],
      [text |-> Frame(<<"2">>), frame |-> TRUE, value |-> <<"2">>],
      [text |-> Frame(<<"x">>), frame |-> TRUE, value |-> Null],
      [text |-> DataPrefix \o <<"1">>, frame |-> FALSE, value |-> Null],
      [text |-> <<NL>>, frame |-> FALSE, value |-> Null],
      [text |-> <<" ">>, frame |-> FALSE, value |-> Null] }

Responses == UNION { [1..n -> Pieces] : n \in 0..MaxPieces }

RECURSIVE TextOf(_)
TextOf(pieces) ==
    IF pieces = <<>> THEN <<>> ELSE Head(pieces).text \o TextOf(Tail(pieces))

\* text.split('\n\n'), cur being the part before the next delimiter
RECURSIVE Split(_, _)
Split(text, cur) ==
    IF text = <<>> THEN <<cur>>
    ELSE IF Len(text) >= 2 /\ text[1] = NL /\ text[2] = NL
    THEN <<cur>> \o Split(SubSeq(text, 3, Len(text)), <<>>)
    ELSE Split(Tail(text), Append(cur, Head(text)))

WhiteSpace == {" ", NL}

\* line.trim()
RECURSIVE Trim(_)
Trim(line) ==
    IF line = <<>> THEN line
    ELSE IF Head(line) \in WhiteSpace THEN Trim(Tail(line))
    ELSE IF line[Len(line)] \in WhiteSpace THEN Trim(SubSeq(line, 1, Len(line) - 1))
    ELSE line

\* trimmed.startsWith('data: ')
StartsWith(line, prefix) ==
    Len(line) >= Len(prefix) /\ SubSeq(line, 1, Len(prefix)) = prefix

\* JSON.parse(text) does not throw
Decodes(text) ==
    Trim(text) # <<>> /\ \A i \in 1..Len(Trim(text)) : Trim(text)[i] \in {"1", "2"}

\* the body of the loop over lines, a frame that does not decode raising
OnLineRaising(c, line) ==
    LET trimmed == Trim(line)
        payload == SubSeq(trimmed, Len(DataPrefix) + 1, Len(trimmed))
    IN IF c.raised \/ ~StartsWith(trimmed, DataPrefix) THEN c
       ELSE IF Decodes(payload) THEN [c EXCEPT !.events = Append(@, Trim(payload))]
       ELSE [c EXCEPT !.raised = TRUE, !.pc = "done"]

\* the body of the loop over lines: try { onProgress(JSON.parse(...)) }
\* catch { }
OnLine(c, line) ==
    LET trimmed == Trim(line)
        payload == SubSeq(trimmed, Len(DataPrefix) + 1, Len(trimmed))
    IN IF ~StartsWith(trimmed, DataPrefix) THEN c
       ELSE IF Decodes(payload) THEN [c EXCEPT !.events = Append(@, Trim(payload))]
       ELSE c

RECURSIVE ForEachLine(_, _)
ForEachLine(c, lines) ==
    IF lines = <<>> THEN c ELSE ForEachLine(OnLine(c, Head(lines)), Tail(lines))

\* the buffer after a chunk, the incomplete tail thrown away
KeptTailLost(lines) == <<>>

\* buffer = lines.pop() || ''
KeptTail(lines) == lines[Len(lines)]

\* the body of the read loop for one chunk
Consume(c, chunk) ==
    LET lines == Split(c.buffer \o chunk, <<>>) IN
    ForEachLine([c EXCEPT !.buffer = KeptTail(lines)],
                SubSeq(lines, 1, Len(lines) - 1))

\* the reader before its first read
Fresh(pieces) ==
    [sent |-> pieces, rest |-> TextOf(pieces), buffer |-> <<>>, events |-> <<>>,
     pc |-> "read", raised |-> FALSE]

ConsumerInit ==
    /\ consumer \in { Fresh(pieces) : pieces \in Responses }
    /\ fetcher = Null /\ collector = Null /\ extractor = Null /\ composer = Null
    /\ acquirer = Null /\ sleeper = Null
    /\ hook = "twoPhase"
    /\ HookInit

\* reader.read() returns the next n characters
ChunkRead ==
    /\ consumer.pc = "read"
    /\ \E n \in 1..Len(consumer.rest) :
         consumer' = Consume([consumer EXCEPT !.rest = SubSeq(@, n + 1, Len(@))],
                             SubSeq(consumer.rest, 1, n))
    /\ UNCHANGED <<hookVars, fetcher, collector, extractor, composer, acquirer, sleeper>>

\* reader.read() returns done
ReadDone ==
    /\ consumer.pc = "read"
    /\ consumer.rest = <<>>
    /\ consumer' = [consumer EXCEPT !.pc = "done"]
    /\ UNCHANGED <<hookVars, fetcher, collector, extractor, composer, acquirer, sleeper>>

ConsumerNext == ChunkRead \/ ReadDone

SpecConsumer == ConsumerInit /\ [][ConsumerNext]_vars

----------------------------------------------------------------------------
(* One run of startAnalysis of the two-phase hook alone, from the call to  *)
(* the answer to its POST, with the posts held, not counted, and every     *)
(* request issued and every delay waited recorded in order.  Subreddit     *)
(* names are 1, 2, ...; the listing of name n holds listing[n] posts,      *)
(* <<n, 1>>, <<n, 2>>, ... in listing order.  fetchSubredditPosts is the   *)
(* collector above: the run carries the collector's fields for the         *)
(* subreddit it is at.  A call of fetchJson is one request that settles;   *)
(* the fraction reported with each message is left to the session above.   *)

MaxNames == 2          \* the subreddit names
MaxReplied == 2        \* the posts of a listing whose comment tree may hold
                       \* a comment or fail to load; later trees are empty

Names == 1..MaxNames

\* request.subreddits: a name may occur twice
NameLists == UNION {[1..n -> Names] : n \in 1..2}

\* the posts a listing holds
Sizes == {0, 1, 50, 150}

\* request.post_limit and request.include_comments
Asked ==
    {q \in [subreddits : NameLists, limit : {0, MaxPostLimit, 50, 150},
            includeComments : BOOLEAN] :
        q.includeComments /\ q.limit > MaxPostLimit => Len(q.subreddits) = 1}

\* what fetchJson throws
Failures == {<<"redditHttp", 500>>, <<"rateLimited">>, <<"network">>}

\* the run before its first statement
Begun(q, listing, over, cursorAtEnd) ==
    [subreddits |-> q.subreddits, limit |-> q.limit,
     includeComments |-> q.includeComments,
     listing |-> listing, over |-> over, cursorAtEnd |-> cursorAtEnd,
     i |-> 1,                 \* position of `for (const subreddit of subreddits)`
     available |-> 0, posts |-> <<>>, after |-> 0, pages |-> 0,
     asked |-> <<>>, cursors |-> <<>>,
     outcome |-> "", result |-> <<>>,       \* fetchSubredditPosts
     pc |-> "start",
     allPosts |-> <<>>, allComments |-> <<>>,
     postsToFetch |-> <<>>, ci |-> 0,       \* the comment loop, ci is i + 1
     completedReqs |-> 0,
     said |-> Null,           \* the last message passed to onProgress
     returned |-> FALSE,      \* fetchAllRedditData has returned
     payload |-> Null,        \* the body of the POST
     exit |-> "", error |-> Null,
     log |-> <<>>,            \* history: the requests and the delays, in order
     outstanding |-> 0,       \* history: the requests issued and not settled
     caught |-> 0,            \* history: the comment fetches that failed
     pushed |-> <<>>,         \* history: the length of allPosts after each push
     fetchedPages |-> 0,      \* history: the pages that arrived with a post
     fetchedTrees |-> 0]      \* history: the comment fetches that returned

\* report(msg) and the final onProgress
Say(a, msg) == [a EXCEPT !.said = msg]

\* fetch(url) is called
Request(a, what) ==
    [a EXCEPT !.log = Append(@, what), !.outstanding = @ + 1]

\* the awaited request has settled
Settled(a) == [a EXCEPT !.outstanding = @ - 1]

\* await sleep(RATE_LIMIT_DELAY, signal)
Delay(a, pc) == [a EXCEPT !.pc = pc]

\* the delay has been waited in full
Delayed(a, what) == [a EXCEPT !.log = Append(@, <<"delay", what>>)]

\* Math.min(100, limit - posts.length)
BatchSize(c) == Min(PAGE_SIZE, c.limit - Len(c.posts))

\* Process without the check for an empty result
ProcessUnchecked(a) ==
    Request([a EXCEPT !.pc = "post",
                      !.payload = [posts |-> a.allPosts,
                                   comments |-> a.allComments,
                                   subreddits |-> a.subreddits]],
            <<"POST">>)

\* startAnalysis once fetchAllRedditData has returned: the check for an
\* empty result, then streamProcess({ posts, comments, subreddits })
Process(a) ==
    IF Len(a.allPosts) = 0
    THEN [a EXCEPT !.pc = "ended", !.exit = "noPosts", !.error = <<"noPosts">>]
    ELSE Request([a EXCEPT !.pc = "post",
                           !.payload = [posts |-> a.allPosts,
                                        comments |-> a.allComments,
                                        subreddits |-> a.subreddits]],
                 <<"POST">>)

\* fetchAllRedditData after its loop: the final message and the return
AllFetched(a) ==
    Process([Say(a, <<"fetched", Len(a.allPosts), Len(a.allComments)>>)
                EXCEPT !.returned = TRUE])

RECURSIVE NextSubreddit(_)

\* SubredditDone without the delay between subreddits
SubredditDoneAtOnce(a) ==
    NextSubreddit([a EXCEPT !.i = @ + 1])

\* the end of one iteration of the loop over subreddits
SubredditDone(a) ==
    IF IndexOf(a.subreddits, a.subreddits[a.i]) < Len(a.subreddits)
    THEN Delay(a, "subSleep")
    ELSE NextSubreddit([a EXCEPT !.i = @ + 1])

\* fetchPostComments has returned `comments` for post ci
CommentsReturned(a, comments) ==
    LET b == Say([a EXCEPT !.allComments = @ \o comments,
                           !.completedReqs = @ + 1, !.fetchedTrees = @ + 1],
                 <<"fetchedComments", a.ci, Len(a.postsToFetch)>>)
    IN IF a.ci < Len(a.postsToFetch) THEN Delay(b, "commentSleep")
       ELSE SubredditDone(b)

\* fetchPostComments without its catch clause: the failure goes up
Uncaught(a, f) ==
    [a EXCEPT !.pc = "ended", !.exit = "threw", !.error = f]

\* the catch clause of fetchPostComments: no comments for this post
Caught(a, f) == CommentsReturned([a EXCEPT !.caught = @ + 1], <<>>)

\* FetchComment with the call of fetchPostComments not awaited
FetchCommentUnawaited(a) ==
    CommentsReturned(
        Request(Say(a, <<"fetchingComments", a.ci, Len(a.postsToFetch)>>),
                <<"comment", a.postsToFetch[a.ci]>>),
        <<>>)

\* one iteration of the comment loop, up to the await of fetchPostComments
FetchComment(a) ==
    Request(Say([a EXCEPT !.pc = "comment"],
                <<"fetchingComments", a.ci, Len(a.postsToFetch)>>),
            <<"comment", a.postsToFetch[a.ci]>>)

\* PostsToFetch without the cap of 50
PostsToFetchAll(posts, postLimit) == Sliced(posts, postLimit)

\* posts.slice(0, Math.min(postLimit, 50))
PostsToFetch(posts, postLimit) == Sliced(posts, Min(postLimit, COMMENT_FETCH_CAP))

\* fetchSubredditPosts has returned: push the posts, then the comment loop
PostsReturned(a) ==
    LET name == a.subreddits[a.i]
        posts == [k \in 1..Len(a.result) |-> <<name, a.result[k]>>]
        b == [a EXCEPT !.allPosts = @ \o posts,
                       !.pushed = Append(@, Len(a.allPosts) + Len(posts))]
    IN IF a.includeComments /\ Len(posts) > 0
       THEN FetchComment([b EXCEPT
                !.postsToFetch = PostsToFetch(posts, a.limit),
                !.ci = 1])
       ELSE SubredditDone(b)

\* where fetchSubredditPosts stands after CollectLoop or CollectPage: at a
\* page request, in the delay between two pages, or at its return
Paged(c) ==
    IF c.pc = "fetch"
    THEN Request(c, <<"page", c.subreddits[c.i], BatchSize(c), c.after>>)
    ELSE IF c.pc = "done" THEN PostsReturned(c)
    ELSE c

\* the head of the loop over subreddits
NextSubreddit(a) ==
    IF a.i > Len(a.subreddits) THEN AllFetched(a)
    ELSE LET name == a.subreddits[a.i] IN
         Paged(CollectLoop(Say([a EXCEPT !.available = a.listing[name],
                                         !.posts = <<>>, !.after = 0,
                                         !.pages = 0, !.result = <<>>,
                                         !.asked = <<>>, !.cursors = <<>>],
                               <<"fetchingPosts", name>>)))

\* PagesCounted adding every page done so far
PagesCountedWhole(completedReqs, fetched) ==
    completedReqs + Ceil(fetched, PAGE_SIZE)

\* the callback fetchAllRedditData passes to fetchSubredditPosts
PagesCounted(completedReqs, fetched) ==
    LET pagesDone == Ceil(fetched, PAGE_SIZE)
    IN completedReqs - (IF pagesDone > 1 THEN pagesDone - 1 ELSE 0) + pagesDone

\* startAnalysis(request), up to its first await
AcquirerInit ==
    /\ acquirer \in
         { NextSubreddit(Begun(q, listing, over, cursorAtEnd)) :
             q \in Asked, listing \in [Names -> Sizes],
             over \in {0, 1}, cursorAtEnd \in BOOLEAN }
    /\ fetcher = Null /\ collector = Null /\ extractor = Null
    /\ consumer = Null /\ composer = Null /\ sleeper = Null
    /\ hook = "twoPhase"
    /\ HookInit

\* the page has arrived: the loop body, with the onProgress of the page
PostsPageArrived ==
    /\ acquirer.pc = "fetch"
    /\ LET c == CollectPage(Settled(acquirer))
           d == IF Len(c.posts) > Len(acquirer.posts)
                THEN Say([c EXCEPT !.completedReqs = PagesCounted(@, Len(c.posts)),
                                   !.fetchedPages = @ + 1],
                         <<"pageProgress", Len(c.posts), c.limit>>)
                ELSE c
       IN acquirer' = Paged(d)
    /\ UNCHANGED <<hookVars, fetcher, collector, extractor, consumer, composer, sleeper>>

\* the page request has failed: fetchJson throws, up to the hook's catch
PostsPageFailed ==
    /\ acquirer.pc = "fetch"
    /\ \E f \in Failures :
         acquirer' = [Settled(acquirer) EXCEPT !.pc = "ended", !.exit = "threw",
                                               !.error = f]
    /\ UNCHANGED <<hookVars, fetcher, collector, extractor, consumer, composer, sleeper>>

\* the delay between two pages is over
BetweenPagesOver ==
    /\ acquirer.pc = "sleep"
    /\ acquirer' = Paged(CollectLoop(Delayed(acquirer, "page")))
    /\ UNCHANGED <<hookVars, fetcher, collector, extractor, consumer, composer, sleeper>>

\* the comment tree has arrived and extractComments gives k comments
CommentTreeArrived ==
    /\ acquirer.pc = "comment"
    /\ \E k \in (IF acquirer.ci <= MaxReplied THEN {0, 1} ELSE {0}) :
         acquirer' = CommentsReturned(Settled(acquirer),
                        [n \in 1..k |-> <<"comment", acquirer.postsToFetch[acquirer.ci]>>])
    /\ UNCHANGED <<hookVars, fetcher, collector, extractor, consumer, composer, sleeper>>

\* the comment-tree request has failed: fetchJson throws
CommentTreeFailed ==
    /\ acquirer.pc = "comment"
    /\ acquirer.ci <= MaxReplied
    /\ \E f \in Failures : acquirer' = Caught(Settled(acquirer), f)
    /\ UNCHANGED <<hookVars, fetcher, collector, extractor, consumer, composer, sleeper>>

\* the delay between two comment fetches is over
BetweenCommentsOver ==
    /\ acquirer.pc = "commentSleep"
    /\ acquirer' = FetchComment([Delayed(acquirer, "comment") EXCEPT !.ci = @ + 1])
    /\ UNCHANGED <<hookVars, fetcher, collector, extractor, consumer, composer, sleeper>>

\* the delay between two subreddits is over
BetweenSubredditsOver ==
    /\ acquirer.pc = "subSleep"
    /\ acquirer' = NextSubreddit([Delayed(acquirer, "subreddit") EXCEPT !.i = @ + 1])
    /\ UNCHANGED <<hookVars, fetcher, collector, extractor, consumer, composer, sleeper>>

\* the server has answered the POST
ProcessAnswered ==
    /\ acquirer.pc = "post"
    /\ acquirer' = [Settled(acquirer) EXCEPT !.pc = "ended", !.exit = "posted"]
    /\ UNCHANGED <<hookVars, fetcher, collector, extractor, consumer, composer, sleeper>>

AcquirerNext ==
    \/ PostsPageArrived
    \/ PostsPageFailed
    \/ BetweenPagesOver
    \/ CommentTreeArrived
    \/ CommentTreeFailed
    \/ BetweenCommentsOver
    \/ BetweenSubredditsOver
    \/ ProcessAnswered

SpecAcquisition == AcquirerInit /\ [][AcquirerNext]_vars

----------------------------------------------------------------------------
(* The claims *)

\* run r took the step (an ended run takes none)
Stepped(r) == Live(r) /\ runs'[r] # runs[r]

\* a hook operation was called in the step
Called == calls' # calls

\* r is the last call, and no other call ran beside it: every other one had
\* ended before r started, or was aborted
Alone(r) ==
    /\ r = Len(runs)
    /\ \A q \in Runs \ {r} : runs[q].pc = "done" /\ runs[q].exit \in {"", "aborted"}

\* C1: after cancel() is called while a run is in flight (a request, a
\* delay, the stream read or a snapshot load is pending) the status is idle
\* and stays idle until the next start or load operation is called.
C1_CancelStaysIdle == lastOp = "cancel" => status = "idle"

\* C2: once start has been called while an earlier run was in flight, no
\* step of the earlier run changes status, progress, stage, message, result
\* or error, wherever the earlier run was suspended.
C2_SupersededRunSilent ==
    [][\A r \in Runs :
         (runs[r].kind # "snapshot" /\ r # abortRef /\ Stepped(r))
            => UNCHANGED session]_vars

\* C3: once the abort signal of an acquisition run is raised, the run calls
\* its progress callback no more, so the session's progress, stage, message
\* and result are not changed by that run, and the run ends rejected.
C3_AbortedAcquisitionSilent ==
    [][\A r \in Runs :
         (runs[r].kind = "analysis" /\ aborted[r] /\ Stepped(r))
            => /\ UNCHANGED <<progress, stage, message, result>>
               /\ runs'[r].exit = "aborted"]_vars

\* C4: in every reachable state result is non-null if and only if status
\* is done.
C4_ResultIffDone == (result # Null) <=> (status = "done")

\* C5: in every reachable state error is non-null if and only if status is
\* error.
C5_ErrorIffError == (error # Null) <=> (status = "error")

\* C6: every change of status is one of: idle to loading on start; loading
\* to done; loading to error; loading to idle on cancel or reset; done or
\* error to loading on a new start; a move to done by loading a result.
C6_ListedTransitions ==
    [][status' # status =>
         \/ status = "idle" /\ status' = "loading" /\ Called
                /\ lastOp' \in {"start", "loadSnapshot"}
         \/ status = "loading" /\ status' \in {"done", "error"} /\ ~Called
         \/ status = "loading" /\ status' = "idle" /\ Called
                /\ lastOp' \in {"cancel", "cancelIdle", "reset"}
         \/ status \in {"done", "error"} /\ status' = "loading" /\ Called
                /\ lastOp' \in {"start", "loadSnapshot"}
         \* a start that fails before its first request: loading, then error
         \/ status' = "error" /\ Called /\ lastOp' = "start"
         \/ status' = "done" /\ Called /\ lastOp' = "loadResult"]_vars

\* C7: a failure of either phase that is not a cancellation ends the run
\* with status error and error set to the failure's message; after a failed
\* acquisition the server is never contacted; a cancellation ends with
\* status idle and error left null.
C7_FailureEndsInError ==
    \A r \in Runs :
       (runs[r].kind # "snapshot" /\ Alone(r) /\ runs[r].pc = "done") =>
          /\ (lastOp = "start" /\ runs[r].failure # Null)
                => (status = "error" /\ error = runs[r].failure)
          /\ (runs[r].kind = "analysis" /\ runs[r].exit = "failed" /\ ~runs[r].fetched)
                => ~runs[r].posted
          /\ (lastOp = "cancel" /\ runs[r].exit = "aborted" /\ runs[r].failure = Null)
                => (status = "idle" /\ error = Null)

\* C8: when the response stream ends without a results event carrying data
\* or an error event, and the run was not cancelled, the run ends in the
\* error state; the session does not remain in loading.
C8_IncompleteStreamIsError ==
    \A r \in Runs :
       (runs[r].kind # "snapshot" /\ Alone(r) /\ lastOp = "start"
          /\ runs[r].exit = "returned" /\ runs[r].seen = {})
            => status = "error"

\* C9: once a results event has put the session in done, or an error event
\* has put it in error, no later frame of the same stream changes status,
\* result or error.
C9_TerminalEventsAreFinal ==
    [][\A r \in Runs :
         (/\ runs[r].pc = "stream"
          /\ \/ "results" \in runs[r].seen /\ status = "done"
             \/ "error" \in runs[r].seen /\ status = "error"
          /\ runs'[r].left < runs[r].left)
            => UNCHANGED <<status, result, error>>]_vars

\* C10: when every subreddit of a run returns no posts the run ends in
\* error with the no-posts message and nothing is sent to the server; when
\* some subreddit returns a post, empty ones are no failure and the run
\* goes on to the POST (unless it was cancelled).
C10_NoPosts ==
    \A r \in Runs : runs[r].kind = "analysis" =>
       /\ (runs[r].fetched /\ runs[r].yield \in {"none", "zero"})
             => /\ runs[r].pc = "done" /\ runs[r].exit = "noPosts"
                /\ runs[r].failure = <<"noPosts">>
                /\ ~runs[r].posted
                /\ (Alone(r) /\ lastOp = "start")
                      => (status = "error" /\ error = <<"noPosts">>)
       /\ (runs[r].fetched /\ runs[r].yield \in {"some", "mixed"})
             => (runs[r].posted \/ runs[r].exit = "aborted")
       /\ runs[r].posted => (runs[r].fetched /\ runs[r].yield \in {"some", "mixed"})

\* two subreddits, one empty and one not: the POST was sent
C10_Witness ==
    \E r \in Runs : runs[r].yield = "mixed" /\ runs[r].posted /\ runs[r].pc = "stream"

\* the number of rate-limit responses a script starts with
RECURSIVE Leading429(_)
Leading429(script) ==
    IF script # <<>> /\ Head(script) = 429 THEN 1 + Leading429(Tail(script)) ELSE 0

\* C11: when k <= MAX_RETRIES - 1 rate-limit responses are followed by a
\* success, fetchJson returns the decoded payload; when the first
\* MAX_RETRIES responses are all 429 it fails with the rate-limited error;
\* no call issues more than MAX_RETRIES requests.
C11_RetryBound ==
    LET k == Leading429(fetcher.script) IN
    /\ fetcher.requests <= MAX_RETRIES
    /\ (fetcher.pc = "done" /\ ~fetcher.aborted) =>
          /\ (k <= MAX_RETRIES - 1 /\ Ok(fetcher.script[k + 1]))
                => (fetcher.outcome = <<"ok", Payload(fetcher.url)>>
                      /\ fetcher.requests = k + 1)
          /\ k >= MAX_RETRIES => fetcher.outcome = <<"error", <<"rateLimited">>>>

\* two rate limits, then the third request succeeds
C11_Witness ==
    /\ fetcher.pc = "done"
    /\ Leading429(fetcher.script) = MAX_RETRIES - 1
    /\ fetcher.requests = MAX_RETRIES
    /\ fetcher.outcome = <<"ok", Payload(fetcher.url)>>

\* C12: a response that is neither a success nor a 429 makes fetchJson fail
\* at once with the HTTP error of that status and url: no backoff wait and
\* no request follow it, however many 429 responses came before it.
C12_HttpErrorFailsAtOnce ==
    LET k == Leading429(fetcher.script)
        st == fetcher.script[k + 1]
    IN (/\ k <= MAX_RETRIES - 1
        /\ st # 0 /\ ~Ok(st)
        /\ fetcher.requests = k + 1
        /\ fetcher.pc # "fetch"
        /\ ~fetcher.aborted)
          => /\ fetcher.pc = "done"
             /\ fetcher.outcome = <<"error", <<"redditHttp", st, fetcher.url>>>>
             /\ fetcher.waits = k

\* an HTTP 500 after two rate limits
C12_Witness ==
    /\ fetcher.pc = "done"
    /\ Leading429(fetcher.script) = MAX_RETRIES - 1
    /\ fetcher.outcome = <<"error", <<"redditHttp", 500, fetcher.url>>>>
    /\ fetcher.waits = MAX_RETRIES - 1

\* C13: for every target count N and every listing of `available` posts
\* that serves pages of the requested size, fetchSubredditPosts returns
\* exactly min(N, available) posts, in listing order; it never returns more
\* than N, also when pages carry more posts than requested; an empty first
\* page gives an empty collection and no error.
C13_CollectsMinOfTargetAndAvailable ==
    (collector.pc = "done" /\ (collector.failAt = 0 \/ collector.pages < collector.failAt)) =>
       /\ collector.outcome = "returned"
       /\ Len(collector.result) <= collector.limit
       /\ \A i \in 1..Len(collector.result) : collector.result[i] = i
       /\ collector.over = 0
             => Len(collector.result) = Min(collector.limit, collector.available)
       /\ collector.available = 0 => collector.result = <<>>

\* two pages and a page that carried more than was asked for
C13_Witness ==
    /\ collector.pc = "done"
    /\ collector.pages = 2
    /\ collector.over = 1
    /\ Len(collector.posts) > collector.limit
    /\ Len(collector.result) = collector.limit

\* the node of a tree at a path
RECURSIVE NodeAt(_, _)
NodeAt(children, path) ==
    IF Len(path) = 1 THEN children[Head(path)]
    ELSE NodeAt(children[Head(path)].replies, Tail(path))

\* C14: for every reply tree and every depth bound D >= 0 (top-level nodes
\* are depth 0) extractComments emits no comment taken from a node at depth
\* >= D and none whose body is empty, '[deleted]' or '[removed]'.
C14_DepthBoundAndNoRemoved ==
    extractor.pc = "done" =>
       \A i \in 1..Len(extractor.comments) :
          LET c == extractor.comments[i] IN
          /\ Len(c.id) - 1 < extractor.maxDepth
          /\ c.body = NodeAt(extractor.children, c.id).body
          /\ c.body \notin {"", "[deleted]", "[removed]"}

\* three levels of comments with text under a bound of two: the first two
\* are emitted, the third is not
C14_Witness ==
    /\ extractor.pc = "done"
    /\ extractor.maxDepth = 2
    /\ extractor.children =
         <<Node([kind |-> "t1", body |-> "text"],
                <<Node([kind |-> "t1", body |-> "text"],
                       <<Node([kind |-> "t1", body |-> "text"], <<>>)>>)>>)>>
    /\ extractor.comments = <<[id |-> <<1>>, body |-> "text"],
                              [id |-> <<1, 1>>, body |-> "text"]>>

\* C15: the fractions fetchAllRedditData reports during one run are
\* non-decreasing, and none is 1.0 while a post-page or comment-tree
\* request of the run is outstanding or still to be issued.
C15_AcquisitionProgressMonotone ==
    \A r \in Runs : runs[r].kind = "analysis" => (runs[r].ordered /\ ~runs[r].early)

\* C16: within one run whose acquisition fractions and remote progress
\* values are each non-decreasing and in [0,1], the session's progress
\* never decreases from the start to the terminal state, the phase boundary
\* included, and is 1.0 only after the acquisition has reported completion
\* and a remote event has reported progress 1.
C16_SessionProgressMonotone ==
    [][\A r \in Runs :
         (/\ runs[r].kind = "analysis" /\ Live(r)
          /\ r = abortRef /\ ~aborted[r]
          /\ lastOp = "start" /\ ~Called
          /\ runs'[r].ordered /\ runs'[r].remoteOrdered)
            => /\ Leq(progress, progress')
               /\ progress' = One => (runs'[r].fetched /\ runs'[r].remote = One)]_vars

\* C18: every fraction fetchAllRedditData reports and every value the
\* session's progress takes is a number in [0,1], for every request and
\* every progress value a remote event carries.
C18_ProgressInUnitInterval ==
    /\ InUnit(progress)
    /\ \A r \in Runs : runs[r].reported # Null => InUnit(runs[r].reported)

\* the progress 0.5 was composed in a phase
Composed(phase) ==
    /\ composer.pc = "set"
    /\ composer.phase = phase
    /\ Carried(composer.k) = Dbl(1, 2)

\* C17 as stated: with split constant 0.3, an acquisition fraction 0.5 gives
\* the session progress 0.15, a remote progress 0.5 gives 0.65 and a remote
\* progress 1 gives exactly 1.0.
C17_SplitExamples ==
    /\ Composed("acquisition") => composer.progress = Dbl(15, 100)
    /\ Composed("remote") => composer.progress = Dbl(65, 100)
    /\ (composer.pc = "set" /\ composer.phase = "remote"
          /\ Carried(composer.k) = Dbl(1, 1))
             => composer.progress = Dbl(1, 1)

\* C17 amended: an acquisition fraction 0.5 gives 0.15 and a remote
\* progress 1 gives exactly 1.0; a remote progress 0.5 gives
\* 0.6499999999999999, the double one unit in the last place (2^-53) below
\* 0.65.
C17_SplitExamplesRounded ==
    /\ Composed("acquisition") => composer.progress = Dbl(15, 100)
    /\ Composed("remote")
          => /\ composer.progress # Dbl(65, 100)
             /\ DAdd(composer.progress, [m |-> <<1>>, e |-> 0 - MantissaBits])
                   = Dbl(65, 100)
    /\ (composer.pc = "set" /\ composer.phase = "remote"
          /\ Carried(composer.k) = Dbl(1, 1))
             => composer.progress = Dbl(1, 1)

\* the remote progress 0.5 was composed
C17_Witness == Composed("remote") /\ composer.progress # Dbl(0, 1)

\* what of a response has been read
ReadSoFar ==
    SubSeq(TextOf(consumer.sent), 1, Len(TextOf(consumer.sent)) - Len(consumer.rest))

\* the delimiters in a text, counted from the left without overlap
RECURSIVE Delimiters(_)
Delimiters(text) ==
    IF Len(text) < 2 THEN 0
    ELSE IF text[1] = NL /\ text[2] = NL THEN 1 + Delimiters(SubSeq(text, 3, Len(text)))
    ELSE Delimiters(Tail(text))

\* C19: however the response is cut into read chunks, also inside a frame
\* or inside the blank-line delimiter, streamAnalysis dispatches the events
\* it dispatches when the same text arrives in one chunk; a frame split
\* across reads gives one event, and only once its delimiter has arrived.
C19_ChunkingIndependence ==
    consumer.pc \in {"read", "done"} =>
       /\ consumer.events = Consume(Fresh(consumer.sent), ReadSoFar).events
       /\ Len(consumer.events) <= Delimiters(ReadSoFar)

\* a frame was cut inside its payload position and inside its delimiter:
\* nothing is dispatched before the second line feed, one event after it
C19_Witness ==
    /\ consumer.sent = <<[text |-> Frame(<<"1">>), frame |-> TRUE, value |-> <<"1">>],
                         [text |-> Frame(<<"2">>), frame |-> TRUE, value |-> <<"2">>]>>
    /\ consumer.rest = <<NL>>
    /\ consumer.buffer = DataPrefix \o <<"2", NL>>
    /\ consumer.events = <<<<"1">>>>

\* the events of the frames of a response that decode, in order
RECURSIVE Decoded(_)
Decoded(pieces) ==
    IF pieces = <<>> THEN <<>>
    ELSE (IF Head(pieces).value # Null THEN <<Head(pieces).value>> ELSE <<>>)
           \o Decoded(Tail(pieces))

\* C20: a delimiter-terminated frame that does not decode is dropped
\* without raising and without ending the read loop; every other frame is
\* dispatched to the observer exactly once, in arrival order.
C20_MalformedFrameDropped ==
    (\A i \in 1..Len(consumer.sent) : consumer.sent[i].frame) =>
       /\ ~consumer.raised
       /\ consumer.pc = "done" => consumer.rest = <<>>
       /\ consumer.rest = <<>> => consumer.events = Decoded(consumer.sent)

\* a frame that does not decode between two that do: both are dispatched
C20_Witness ==
    /\ consumer.pc = "done"
    /\ Len(consumer.sent) = 3
    /\ consumer.sent[2].frame /\ consumer.sent[2].value = Null
    /\ consumer.events = <<<<"1">>, <<"2">>>>

\* C21: a comment-tree fetch that fails (HTTP error, rate limit exhausted,
\* network failure) adds no comment and changes nothing else: the posts and
\* the comments got so far are kept, no error is raised and the run goes on
\* with the next post, the next subreddit or the POST.  A page fetch that
\* fails ends the run with that failure: fetchAllRedditData does not
\* return, no POST is sent and no other request follows; nothing else than
\* a page fetch ends the run so.
C21_CommentFailureContained ==
    [][/\ acquirer'.caught # acquirer.caught =>
            /\ acquirer.pc = "comment"
            /\ acquirer'.allComments = acquirer.allComments
            /\ acquirer'.allPosts = acquirer.allPosts
            /\ acquirer'.exit = "" /\ acquirer'.error = Null
            /\ acquirer'.pc \in {"commentSleep", "subSleep", "post"}
       /\ acquirer'.exit = "threw" /\ acquirer.exit # "threw" =>
            /\ acquirer.pc = "fetch"
            /\ acquirer'.pc = "ended"
            /\ acquirer'.error \in Failures
            /\ ~acquirer'.returned /\ acquirer'.payload = Null
            /\ acquirer'.log = acquirer.log]_vars

\* a run of two subreddits in which a comment fetch failed, another gave a
\* comment, and the POST was sent and answered
C21_Witness ==
    /\ acquirer.exit = "posted"
    /\ Len(acquirer.subreddits) = 2
    /\ acquirer.caught > 0
    /\ acquirer.allComments # <<>>
    /\ acquirer.payload.comments = acquirer.allComments

\* the requests of the log: page, comment-tree and POST requests
IsRequest(e) == e[1] \in {"page", "comment", "POST"}

\* C22: within one run at most one request is outstanding at any time (one
\* exactly while the run awaits a page, a comment tree or the answer to the
\* POST, none otherwise); the POST is the last request of the run, issued
\* when no other request is outstanding, after the loop over the
\* subreddits has ended and fetchAllRedditData has sent its final message
\* and returned.
C22_OneRequestAtATime ==
    /\ acquirer.outstanding = (IF acquirer.pc \in {"fetch", "comment", "post"} THEN 1 ELSE 0)
    /\ \A n \in 1..Len(acquirer.log) :
         acquirer.log[n] = <<"POST">> =>
            /\ n = Len(acquirer.log)
            /\ acquirer.returned
            /\ acquirer.i > Len(acquirer.subreddits)
            /\ acquirer.said = <<"fetched", Len(acquirer.allPosts), Len(acquirer.allComments)>>
            /\ acquirer.pc \in {"post", "ended"}

\* a run of two subreddits with comments whose POST is outstanding after
\* two page requests and four comment-tree requests
C22_Witness ==
    /\ acquirer.pc = "post"
    /\ acquirer.outstanding = 1
    /\ Len(acquirer.subreddits) = 2
    /\ Cardinality({n \in 1..Len(acquirer.log) : acquirer.log[n][1] = "comment"}) = 4
    /\ Cardinality({n \in 1..Len(acquirer.log) : acquirer.log[n][1] = "page"}) = 2

\* the page requests of the log
PageRequests == {n \in 1..Len(acquirer.log) : acquirer.log[n][1] = "page"}

\* the first `limit` posts of the listing of the first subreddit, in order
FirstPosts(limit) ==
    LET name == acquirer.subreddits[1] IN
    [k \in 1..Min(limit, acquirer.listing[name]) |-> <<name, k>>]

\* one subreddit, postLimit 50, comments disabled
OneSubredditOf50 ==
    /\ Len(acquirer.subreddits) = 1
    /\ acquirer.limit = 50
    /\ ~acquirer.includeComments

\* C23 as stated: with one subreddit, postLimit 50 and comments disabled
\* the run issues exactly one page request, with limit 50, acquires at most
\* 50 posts, the final acquisition message states the number of posts
\* acquired, and the POST is then sent with exactly those posts in order.
C23_OnePageThenPost ==
    OneSubredditOf50 =>
        /\ PageRequests = {1}
        /\ acquirer.log[1] = <<"page", acquirer.subreddits[1], 50, 0>>
        /\ Len(acquirer.allPosts) <= 50
        /\ acquirer.returned =>
              /\ acquirer.allPosts = FirstPosts(50)
              /\ acquirer.said = <<"fetched", Len(FirstPosts(50)), 0>>
              /\ acquirer.payload # Null
              /\ acquirer.payload.posts = FirstPosts(50)

\* C23, amended: as C23, but the POST is sent only when at least one post
\* was acquired; when the listing is empty the final message states 0
\* posts, the run ends with the no-posts error and no POST is sent.
C23_OnePageThenPostUnlessEmpty ==
    OneSubredditOf50 =>
        /\ PageRequests = {1}
        /\ acquirer.log[1] = <<"page", acquirer.subreddits[1], 50, 0>>
        /\ Len(acquirer.allPosts) <= 50
        /\ acquirer.returned =>
              /\ acquirer.allPosts = FirstPosts(50)
              /\ acquirer.said = <<"fetched", Len(FirstPosts(50)), 0>>
              /\ IF FirstPosts(50) = <<>>
                 THEN /\ acquirer.payload = Null
                      /\ acquirer.exit = "noPosts"
                      /\ acquirer.log = <<acquirer.log[1]>>
                 ELSE /\ acquirer.payload # Null
                      /\ acquirer.payload.posts = FirstPosts(50)
                      /\ acquirer.payload.comments = <<>>
                      /\ acquirer.log[Len(acquirer.log)] = <<"POST">>

\* such a run against a listing of 150 posts that answers with one post
\* more than asked: 50 posts were sent and the POST was answered
C23_Witness ==
    /\ OneSubredditOf50
    /\ acquirer.exit = "posted"
    /\ acquirer.listing[acquirer.subreddits[1]] = 150
    /\ acquirer.over = 1
    /\ Len(acquirer.payload.posts) = 50

IsPage(e) == e[1] = "page"

\* s is a prefix of t
IsPrefix(s, t) == Len(s) <= Len(t) /\ SubSeq(t, 1, Len(s)) = s

\* two subreddits, postLimit 150, comments disabled, listings that hold at
\* least 150 posts and answer a request with as many posts as it asks for
TwoSubredditsOf150 ==
    /\ Len(acquirer.subreddits) = 2
    /\ acquirer.limit = 150
    /\ ~acquirer.includeComments
    /\ acquirer.over = 0
    /\ \A n \in 1..2 : acquirer.listing[acquirer.subreddits[n]] >= 150

\* the page requests of such a run: 100 posts, then 50 after the 100th
PagesOf150 ==
    LET subs == acquirer.subreddits IN
    << <<"page", subs[1], 100, 0>>, <<"page", subs[1], 50, 100>>,
       <<"page", subs[2], 100, 0>>, <<"page", subs[2], 50, 100>> >>

\* C24: with two subreddits, postLimit 150 each, comments disabled and
\* listings with enough posts, the run issues exactly two page requests per
\* subreddit, asking for 100 posts and then for 50, and a delay is waited in
\* full between every two consecutive page requests, also between the last
\* request of the first subreddit and the first of the second.
C24_TwoPagesEachWithDelays ==
    TwoSubredditsOf150 =>
        /\ IsPrefix(SelectSeq(acquirer.log, IsPage), PagesOf150)
        /\ acquirer.returned => SelectSeq(acquirer.log, IsPage) = PagesOf150
        /\ \A n \in 1..(Len(acquirer.log) - 1) :
             IsPage(acquirer.log[n]) => acquirer.log[n + 1][1] \in {"delay", "POST"}
        /\ \A n \in 1..(Len(acquirer.log) - 1) :
             (IsPage(acquirer.log[n]) /\ acquirer.log[n + 1][1] = "POST") =>
                 acquirer.log[n] = PagesOf150[4]

\* such a run, against listings of exactly 150 posts that give no cursor
\* with their last page, has sent its 300 posts: between the two subreddits
\* only the delay between subreddits was waited
C24_Witness ==
    /\ TwoSubredditsOf150
    /\ ~acquirer.cursorAtEnd
    /\ acquirer.exit = "posted"
    /\ Len(acquirer.payload.posts) = 300
    /\ acquirer.log[4] = <<"delay", "subreddit">>
    /\ Len(acquirer.log) = 8

\* startAnalysis or startSampleAnalysis was called in the step
Started == Called /\ lastOp' = "start"

C26_SnapshotLoadsSupersede ==
    [][\A r \in Runs :
          (/\ r < Len(runs)
           /\ Stepped(r)
           /\ \/ runs[r].kind = "snapshot"
              \/ \E q \in (r + 1)..Len(runs) : runs[q].kind = "snapshot")
          => UNCHANGED <<status, result, progress, stage, error>>]_vars

\* the calls of a start operation: each created a controller
Starts == {r \in Runs : runs[r].kind # "snapshot"}

\* C27: at every moment at most one controller created by a start
\* operation is un-aborted, and it is the one abortRef holds, stored there
\* by the most recent start; the controller of every earlier start is
\* aborted once the new run exists, that is, before its first request.
C27_OneLiveController ==
    /\ \A r \in Starts : ~aborted[r] => r = abortRef
    /\ abortRef = (IF Starts = {} THEN 0 ELSE CHOOSE r \in Starts : \A q \in Starts : q <= r)
    /\ \A r \in Starts, q \in Starts : r < q => aborted[r]

\* a second start was called while the first run awaited a request: the
\* first controller is aborted, the second is not and abortRef holds it,
\* and the second run awaits its first request
C27_Witness ==
    /\ Starts = {1, 2}
    /\ aborted = <<TRUE, FALSE>>
    /\ abortRef = 2
    /\ pendingAbort = 1
    /\ runs[2].pc \in {"page", "post"}

\* the cancellation condition: signal.reason, an AbortError
Cancelled == <<"error", <<"abort">>>>

\* C28: when the signal is raised while fetchJson is mid-request or in a
\* backoff wait, the call rejects with the cancellation condition in that
\* very step, without waiting out the delay, and issues no request and
\* starts no wait afterwards; when it is raised while sleep is waiting,
\* sleep clears its timer and rejects with the cancellation condition; a
\* sleep called on a raised signal rejects at once and sets no timer.
C28_AbortRejectsAtOnce ==
    /\ [](/\ fetcher.aborted =>
               /\ fetcher.pc = "done"
               /\ fetcher.outcome = Cancelled
          /\ sleeper.raised =>
               /\ sleeper.pc = "done"
               /\ sleeper.outcome = Cancelled
               /\ sleeper.timer \in {"none", "cleared"}
          /\ sleeper.timer = "none" => sleeper.raised)
    /\ [][/\ fetcher'.aborted =>
               /\ fetcher'.requests = fetcher.requests
               /\ fetcher'.waits = fetcher.waits
               /\ fetcher'.attempt = fetcher.attempt
          /\ sleeper.raised => sleeper' = sleeper]_vars

\* the signal was raised during the first backoff of a call of fetchJson,
\* which ended with one request made; beside it, a sleep called on a raised
\* signal
C28_Witness ==
    /\ fetcher.aborted
    /\ fetcher.outcome = Cancelled
    /\ fetcher.waits = 1
    /\ fetcher.requests = 1
    /\ sleeper.raised
    /\ sleeper.timer = "none"

\* a request to Reddit: a page or a comment tree
IsUpstream(e) == e[1] \in {"page", "comment"}

\* C29: within one run, between the completion of a request to Reddit and
\* the start of the next request to Reddit for a different URL (page to
\* page, last page to first comment-tree fetch, comment fetch to comment
\* fetch, across two subreddits) a delay is waited in full: in the log no
\* such request follows another at once.
C29_DelayBetweenRequests ==
    \A n \in 1..(Len(acquirer.log) - 1) :
        (/\ IsUpstream(acquirer.log[n])
         /\ IsUpstream(acquirer.log[n + 1])
         /\ acquirer.log[n + 1] # acquirer.log[n])
        => FALSE

\* the delays between subreddits waited so far
SubredditDelays ==
    Cardinality({n \in 1..Len(acquirer.log) : acquirer.log[n] = <<"delay", "subreddit">>})

\* C30: for every list of subreddits, also one in which a name occurs more
\* than once, the delay between subreddits is waited after a subreddit if
\* and only if another one follows it: the run waits in that delay only
\* when it is not at the last subreddit, and when it is at the i-th
\* subreddit, or past the last one, it has waited one such delay for each
\* subreddit before the i-th, or before the last.
C30_DelayIffAnotherFollows ==
    /\ acquirer.pc = "subSleep" => acquirer.i < Len(acquirer.subreddits)
    /\ SubredditDelays = Min(acquirer.i, Len(acquirer.subreddits)) - 1

\* C31: in fetchSubredditPosts the first page request carries no cursor,
\* every later one carries the cursor that came with the page just before
\* it, no cursor is sent in two requests, and each request asks for
\* min(100, N - posts collected so far) posts (the posts collected are
\* those up to the cursor).
C31_CursorsInOrder ==
    LET asked == collector.asked
        cursors == collector.cursors
    IN /\ Len(cursors) <= Len(asked) /\ Len(asked) <= Len(cursors) + 1
       /\ \A k \in 1..Len(asked) :
            /\ k = 1 => asked[k].after = 0
            /\ k > 1 => asked[k].after # 0 /\ asked[k].after = cursors[k - 1]
            /\ asked[k].limit = Min(100, collector.limit - asked[k].after)
            /\ \A j \in 1..(k - 1) : asked[j].after # asked[k].after

\* a call that made three page requests: for 201 posts, of a listing that
\* holds 201
C31_Witness ==
    /\ collector.pc = "done"
    /\ collector.outcome = "returned"
    /\ collector.limit = 201
    /\ Len(collector.result) = 201
    /\ Len(collector.asked) = 3
    /\ collector.asked[3] = [limit |-> 1, after |-> 200]

\* C32: in the result of one run no two posts are the same (subreddit, id)
\* pair, whatever the list of subreddits and the pages served.
C32_PostsUnique ==
    acquirer.returned =>
        Cardinality({acquirer.allPosts[n] : n \in 1..Len(acquirer.allPosts)})
            = Len(acquirer.allPosts)

\* the posts whose comment tree the run has requested, in order
TreesRequested ==
    LET at == SelectSeq([n \in 1..Len(acquirer.log) |-> acquirer.log[n]],
                        LAMBDA e : e[1] = "comment")
    IN [n \in 1..Len(at) |-> at[n][2]]

\* the posts fetchSubredditPosts returned in iteration k of the loop
PostsOf(k) ==
    SubSeq(acquirer.allPosts,
           (IF k = 1 THEN 0 ELSE acquirer.pushed[k - 1]) + 1, acquirer.pushed[k])

\* the posts whose comment tree iteration k is to request: with comments
\* the first min(posts returned, postLimit, 50) of its posts, else none
TreesOf(k) ==
    IF acquirer.includeComments
    THEN SubSeq(PostsOf(k), 1, Min(Len(PostsOf(k)), Min(acquirer.limit, 50)))
    ELSE <<>>

RECURSIVE TreesUpTo(_)

\* the same for iterations 1..k
TreesUpTo(k) == IF k = 0 THEN <<>> ELSE TreesUpTo(k - 1) \o TreesOf(k)

\* C33: with comments requested the run issues, per subreddit of the list,
\* exactly min(posts returned, postLimit, 50) comment-tree requests, one per
\* post, for the first posts returned for it, in order; without comments, or
\* for a subreddit that returned no post, it issues none.  While a comment
\* loop runs the requests so far are a prefix of these.
C33_CommentFetchesCapped ==
    LET due == TreesUpTo(Len(acquirer.pushed)) IN
    /\ IsPrefix(TreesRequested, due)
    /\ acquirer.pc \notin {"comment", "commentSleep"} => TreesRequested = due
    /\ Len(acquirer.pushed) > 0 =>
         Len(TreesRequested) >= Len(TreesUpTo(Len(acquirer.pushed) - 1))

\* 150 posts returned with postLimit 150: the 50 first are asked for
C33_Witness ==
    /\ acquirer.returned /\ acquirer.includeComments
    /\ acquirer.limit = 150 /\ Len(acquirer.allPosts) = 150
    /\ Len(TreesRequested) = 50
    /\ TreesRequested[50] = <<acquirer.subreddits[1], 50>>

\* Math.ceil(postLimit / 100) + (includeComments ? Math.min(postLimit, 50) : 0),
\* times the subreddits
Estimate ==
    (Ceil(acquirer.limit, 100)
        + (IF acquirer.includeComments THEN Min(acquirer.limit, 50) ELSE 0))
    * Len(acquirer.subreddits)

\* C34: completedReqs counts one for every page that arrived with a post and
\* one for every comment-tree fetch that returned, with comments or after a
\* caught failure; it never decreases and never exceeds the estimate
\* (ceil(postLimit / 100) + (comments ? min(postLimit, 50) : 0)) times the
\* subreddits.
C34_CompletedCounted ==
    /\ [](/\ acquirer.completedReqs = acquirer.fetchedPages + acquirer.fetchedTrees
          /\ acquirer.completedReqs <= Estimate)
    /\ [][acquirer'.completedReqs >= acquirer.completedReqs]_vars

\* two pages and 50 comment fetches, one of them failed: 52 of 52
C34_Witness ==
    /\ acquirer.returned /\ acquirer.limit = 150
    /\ acquirer.fetchedPages = 2 /\ acquirer.fetchedTrees = 50
    /\ acquirer.caught > 0
    /\ acquirer.completedReqs = 52 /\ Estimate = 52

\* the paths a reply tree of the model may hold
Paths ==
    UNION {[1..n -> 1..Len(extractor.children)] : n \in 1..(MaxTreeDepth + 1)}

RECURSIVE InTree(_, _)

\* `path` names a node of `children`
InTree(children, path) ==
    /\ path # <<>>
    /\ Head(path) <= Len(children)
    /\ Len(path) > 1 => InTree(children[Head(path)].replies, Tail(path))

\* the node at `path` is to be emitted: a comment with a body that is kept,
\* within the depth, below comments only
Due(path) ==
    /\ InTree(extractor.children, path)
    /\ Len(path) <= extractor.maxDepth
    /\ \A n \in 1..Len(path) :
         NodeAt(extractor.children, SubSeq(path, 1, n)).kind = "t1"
    /\ Kept(NodeAt(extractor.children, path).body)

\* p comes before q in a depth-first pre-order walk: p is an ancestor of q,
\* or where they part p takes the earlier sibling
Before(p, q) ==
    \E k \in 1..Len(q) :
        /\ k <= Len(p) + 1
        /\ SubSeq(p, 1, k - 1) = SubSeq(q, 1, k - 1)
        /\ (k = Len(p) + 1 \/ p[k] < q[k])

\* C35: extractComments emits the comments in depth-first pre-order; a
\* comment node with an empty body or a removal marker is not emitted but
\* its replies within the depth are still visited; a node that is not a
\* comment contributes nothing, itself or by anything below it.  So the
\* nodes emitted are exactly the comment nodes with a kept body, within the
\* depth, all of whose ancestors are comment nodes, each once, in pre-order.
C35_PreOrder ==
    extractor.pc = "done" =>
        LET ids == [n \in 1..Len(extractor.comments) |-> extractor.comments[n].id] IN
        /\ \A i, j \in 1..Len(ids) : i < j => Before(ids[i], ids[j])
        /\ {ids[n] : n \in 1..Len(ids)} = {path \in Paths : Due(path)}

\* a removed comment whose reply and reply's reply are emitted before the
\* second top-level comment
C35_Witness ==
    /\ extractor.pc = "done"
    /\ extractor.maxDepth = 3
    /\ NodeAt(extractor.children, <<1>>).body = "[removed]"
    /\ Len(extractor.comments) = 3
    /\ extractor.comments[1].id = <<1, 1>>
    /\ extractor.comments[2].id = <<1, 1, 1>>
    /\ extractor.comments[3].id = <<2>>

\* C36: for every limit and every behaviour of the source (a cursor with
\* every page, pages larger or smaller than asked for) fetchSubredditPosts
\* ends after at most ceil(limit / 100) page requests, retries not counted;
\* with limit 0 it issues none.
C36_PagesBounded ==
    /\ [](/\ collector.pages <= Ceil(collector.limit, 100)
          /\ Len(collector.asked) = collector.pages
          /\ collector.limit = 0 => collector.pages = 0 /\ collector.pc = "done")
    /\ <>(collector.pc = "done")

\* a source that always sends a cursor: three requests for 201 posts, then
\* the return
C36_Witness ==
    /\ collector.pc = "done" /\ collector.outcome = "returned"
    /\ collector.cursorAtEnd
    /\ collector.limit = 201 /\ collector.pages = 3

\* C37: after reset() the session is idle with progress 0, empty stage and
\* message, and no result and no error, and it stays so until the next
\* operation is called, also when a run was in flight at the reset.
C37_ResetStays ==
    lastOp = "reset" =>
        /\ status = "idle" /\ progress = Zero
        /\ stage = "" /\ message = <<"">>
        /\ result = Null /\ error = Null

\* C38: after loadResult(data) the session is done with result data, no
\* error and progress 1, and it keeps them until the next operation is
\* called, also when a run was in flight at the load.
C38_LoadedResultStays ==
    lastOp = "loadResult" =>
        /\ status = "done" /\ result = <<"loaded", 0>>
        /\ error = Null /\ progress = One
====
